---- MODULE Spec2Model ----
(***************************************************************************)
(* Asynchronous transfer engine of python-libusb1 (usb1/__init__.py):      *)
(* USBTransfer, its process-wide registry (USBTransfer.__submitted_dict),  *)
(* the in-flight set of the owning USBDeviceHandle and the completion      *)
(* dispatch (USBTransfer.__callbackWrapper) run by the driver's event      *)
(* processing.                                                             *)
(*                                                                         *)
(* Every public method is one action: its guard and its effects are the    *)
(* method's checks and assignments in source order.  The user callback of  *)
(* a completion runs between DispatchBegin and DispatchEnd (or             *)
(* CallbackRaises): whatever the callback does to transfers is a sequence  *)
(* of the public-method actions taken while dispatching # {}; a callback  *)
(* that is None is the callback that takes none.                           *)
(* The native driver (libusb) is the environment: the results of its       *)
(* submit and cancel calls and the completion statuses are chosen          *)
(* nondeterministically among the values the driver can give.              *)
(***************************************************************************)
EXTENDS Integers, Sequences, FiniteSets, TLC

\* ---------------------------------------------------------------- bounds
NumTransfers == 1
MaxBufLen == 1
IsoSlots == 1
\* Transfers of the device handle whose close() is followed, and the
\* submissions user callbacks may make while that close() drains.
NumHandleTransfers == 2
MaxDrainSubmits == 2
NumThreads == 2
NumCtxObjects == 1
NumHotplug == 2
MaxPollTimeout == 3
MaxTvSec == 1
MaxTvUsec == 2
MaxEvents == 1
NumFds == 2
MaxEnumDevices == 2
\* The transfer whose buffer is followed: its isochronous slots, the length
\* of the byte strings it is given and the values of their bytes.
BufIsoSlots == 2
MaxDataLen == 2
MaxByte == 1
\* How many of its methods that configure it are called on that transfer.
MaxCalls == 2
\* The native return values given to mayRaiseUSBError: from this far below
\* the lowest libusb_error to this far above zero.
MaxReturnValue == 3
\* The statuses a USBTransferHelper holds a callback for, at most.
MaxHelperEvents == 2

\* ------------------------------------------------------ program constants
CONTROL_SETUP_SIZE == 8
\* What a c_uint16 field counts up to, plus one.
WLengthModulus == 65536

ENDPOINT_IN == 128
ENDPOINT_OUT == 0

TRANSFER_TYPE_CONTROL == 0
TRANSFER_TYPE_ISOCHRONOUS == 1
TRANSFER_TYPE_BULK == 2
TRANSFER_TYPE_INTERRUPT == 3

TRANSFER_COMPLETED == 0
TRANSFER_ERROR == 1
TRANSFER_TIMED_OUT == 2
TRANSFER_CANCELLED == 3
TRANSFER_STALL == 4
TRANSFER_NO_DEVICE == 5
TRANSFER_OVERFLOW == 6

SUCCESS == 0
ERROR_IO == -1
ERROR_INVALID_PARAM == -2
ERROR_ACCESS == -3
ERROR_NO_DEVICE == -4
ERROR_NOT_FOUND == -5
ERROR_BUSY == -6
ERROR_TIMEOUT == -7
ERROR_OVERFLOW == -8
ERROR_PIPE == -9
ERROR_INTERRUPTED == -10
ERROR_NO_MEM == -11
ERROR_NOT_SUPPORTED == -12
ERROR_OTHER == -99

Transfers == 1..NumTransfers
HTransfers == 1..NumHandleTransfers
Threads == 1..NumThreads
CtxObjects == 1..NumCtxObjects
HotplugHandles == 1..NumHotplug
Fds == 1..NumFds

\* timeval.tv_usec counts millionths of a second.
UsecPerSec == 1000000
\* transfer.contents.length of a descriptor that was given no buffer yet.
NoBuffer == -1

\* The statuses a completion can carry (EVENT_CALLBACK_SET).
EVENT_CALLBACK_SET ==
    { TRANSFER_COMPLETED, TRANSFER_ERROR, TRANSFER_TIMED_OUT, TRANSFER_CANCELLED,
      TRANSFER_STALL, TRANSFER_NO_DEVICE, TRANSFER_OVERFLOW }

VARIABLES
    transfer,         \* self.__transfer: "NotCreated" | "Ptr" | "None"
    num_iso_packets,  \* self.__num_iso_packets
    initialized,      \* self.__initialized
    doomed,           \* self.__doomed
    ttype,            \* native descriptor: transfer.contents.type
    buflen,           \* native descriptor: transfer.contents.length (NoBuffer: none)
    submitted_dict,   \* keys of USBTransfer.__submitted_dict
    inflight,         \* the device handle's in-flight set
    native,           \* driver's view of the transfer: "idle" | "pending" | "cancelling"
    dispatching,      \* the transfers whose user callback is running (none or one)
    last,             \* the last operation: what it was, how it ended, which
                      \* native call it made
    \* USBDeviceHandle.close and the transfer finalizer (USBTransfer.__close)
    hpc,              \* USBDeviceHandle.close(): "open" (not called) | "events"
                      \* (inside the drain loop's handleEvents) | "finalizing"
                      \* (running finalizer_dict) | "released" | "failed" (raised)
                      \* | "closed" (released, and a transfer object used since)
    cancelled_set,    \* close()'s local cancelled_set
    fin,              \* the transfer's finalizer: "none" | "armed" | "events"
                      \* (inside its drain loop's handleEvents) | "freed" |
                      \* "failed" (it raised before the native free)
    due,              \* submissions a native cancel call was made for
    closeStart,       \* the in-flight set at the time close() was called
    ndispatch,        \* completions dispatched since close() was called
    nsubmit,          \* submissions accepted since close() was called
    \* USBContext
    context_p,        \* self.__context_p: "null" | "valid"
    auto_open,        \* self.__auto_open
    context_refcount, \* self.__context_refcount
    context_cond,     \* the threads holding self.__context_cond (none or one)
    ctx_close,        \* self.__close: "placeholder" | "alive" | "dead" (the
                      \* finalizer made by open(), before and after it ran)
    hotplug_callback_dict,  \* keys of self.__hotplug_callback_dict
    ctx_finalizer_dict,     \* the devices in the context's _finalizer_dict
    dev_finalizer_dict,     \* the handles in their device's _finalizer_dict
    handle_finalizer_dict,  \* the transfers in their handle's _finalizer_dict
    handle_inflight,  \* the transfers in their handle's in-flight set
    cpc,              \* where each thread is in its call on the context
    ckind,            \* the kind of guarded method each thread is calling
    \* USBPoller and the driver's poll descriptors
    driver_fds,       \* the driver's current set of poll descriptors
    fd_set,           \* USBPoller.__fd_set
    poller_fds,       \* the descriptors registered with the external poller
    notifiers,        \* the driver's pollfd notifiers: "null" | "poller"
    has_pollfd_finalizer,  \* USBContext.__has_pollfd_finalizer
    ppc,              \* the USBPoller: "none" | "raised" (__init__ raised) |
                      \* "constructed"
    \* hotplug registrations
    hotplug_live,     \* the registrations the driver delivers events to
    hotplug_true,     \* the registrations whose user callback returned true
    hotplug_enum,     \* hotplugRegisterCallback in progress: the handle being
                      \* registered and the devices still to enumerate
    \* the buffer of a transfer
    xfer,             \* the native descriptor and buffer of one USBTransfer
    \* USBTransferHelper
    helper,           \* __event_callback_dict, __errorCallback and where
                      \* __call__ is: "idle" | "running" (inside the selected
                      \* callback) | "returned" | "raised"
    \* threads inside submit() and cancel()
    tpc               \* where each thread is: << >> (outside) or the stage
                      \* reached and the transfer

hvars == << hpc, cancelled_set, fin, due, closeStart, ndispatch, nsubmit >>

cvars == << context_p, auto_open, context_refcount, context_cond, ctx_close,
           hotplug_callback_dict, ctx_finalizer_dict, dev_finalizer_dict,
           handle_finalizer_dict, handle_inflight, cpc, ckind >>

auxvars == << driver_fds, fd_set, poller_fds, notifiers, has_pollfd_finalizer,
             ppc, hotplug_live, hotplug_true, hotplug_enum, xfer, helper,
             tpc >>

vars == << transfer, num_iso_packets, initialized, doomed, ttype, buflen,
           submitted_dict, inflight, native, dispatching, last, hvars, cvars,
           auxvars >>

config == << initialized, ttype, buflen, num_iso_packets >>

\* ------------------------------------------------------------ error mapping
\* STATUS_TO_EXCEPTION_DICT as built by __bindConstants: one USBError subclass
\* per non-zero libusb_error value.
STATUS_TO_EXCEPTION_DICT ==
    [ v \in { ERROR_IO, ERROR_INVALID_PARAM, ERROR_ACCESS, ERROR_NO_DEVICE,
              ERROR_NOT_FOUND, ERROR_BUSY, ERROR_TIMEOUT, ERROR_OVERFLOW,
              ERROR_PIPE, ERROR_INTERRUPTED, ERROR_NO_MEM, ERROR_NOT_SUPPORTED,
              ERROR_OTHER } |->
        CASE v = ERROR_IO -> "USBErrorIO"
          [] v = ERROR_INVALID_PARAM -> "USBErrorInvalidParam"
          [] v = ERROR_ACCESS -> "USBErrorAccess"
          [] v = ERROR_NO_DEVICE -> "USBErrorNoDevice"
          [] v = ERROR_NOT_FOUND -> "USBErrorNotFound"
          [] v = ERROR_BUSY -> "USBErrorBusy"
          [] v = ERROR_TIMEOUT -> "USBErrorTimeout"
          [] v = ERROR_OVERFLOW -> "USBErrorOverflow"
          [] v = ERROR_PIPE -> "USBErrorPipe"
          [] v = ERROR_INTERRUPTED -> "USBErrorInterrupted"
          [] v = ERROR_NO_MEM -> "USBErrorNoMem"
          [] v = ERROR_NOT_SUPPORTED -> "USBErrorNotSupported"
          [] OTHER -> "USBErrorOther" ]

\* raiseUSBError(value): the exception raised.
raiseUSBError(value) ==
    IF value \in DOMAIN STATUS_TO_EXCEPTION_DICT
    THEN STATUS_TO_EXCEPTION_DICT[value]
    ELSE "USBError"

\* Variant of mayRaiseUSBError that raises on zero too.
mayRaiseUSBError_onZero(value) ==
    IF value <= 0 THEN raiseUSBError(value) ELSE "ok"

\* mayRaiseUSBError(value): "ok" when the value is returned, else the exception.
mayRaiseUSBError(value) ==
    IF value < 0 THEN raiseUSBError(value) ELSE "ok"

USBErrorNames ==
    { STATUS_TO_EXCEPTION_DICT[v] : v \in DOMAIN STATUS_TO_EXCEPTION_DICT }
        \cup { "USBError" }

\* ------------------------------------------------------------ native driver
\* What libusb_submit_transfer can return: 0, or a negative libusb_error; a
\* transfer the driver already holds is refused with ERROR_BUSY.
NativeSubmitResults(t) ==
    IF native[t] = "idle"
    THEN { SUCCESS, ERROR_NO_DEVICE, ERROR_IO, ERROR_NOT_SUPPORTED }
    ELSE { ERROR_BUSY }

\* What libusb_cancel_transfer can return: 0 when the cancellation is
\* requested, ERROR_NOT_FOUND when the transfer is not in progress, already
\* complete or already cancelled, ERROR_NO_DEVICE when the device is gone, or
\* another libusb_error.
NativeCancelResults(t) ==
    IF native[t] = "pending"
    THEN { SUCCESS, ERROR_NOT_FOUND, ERROR_NO_DEVICE, ERROR_OTHER }
    ELSE { ERROR_NOT_FOUND }

\* The statuses the driver can report for a transfer it holds: after a
\* cancellation request CANCELLED or, when the transfer completed first,
\* COMPLETED; any status otherwise.
NativeCompletionStatuses(t) ==
    IF native[t] = "cancelling"
    THEN { TRANSFER_CANCELLED, TRANSFER_COMPLETED }
    ELSE EVENT_CALLBACK_SET \ { TRANSFER_CANCELLED }

\* ------------------------------------------------------------------ helpers
\* The record of an operation on transfer t: how it ended ("ok" or the
\* exception raised) and the native call it made ("none" when it made none).
Ret(op, t, exc, nat) ==
    [ op |-> op, t |-> t, exc |-> exc, native |-> nat ]

\* USBTransfer.__isSubmitted / isSubmitted
isSubmitted(t) ==
    transfer[t] # "None" /\ t \in submitted_dict

Created(t) == transfer[t] # "NotCreated"

\* The state of a USBContext after __init__, with nothing created from it.
ContextInitial ==
    /\ context_p = "null"
    /\ auto_open = TRUE
    /\ context_refcount = 0
    /\ context_cond = {}
    /\ ctx_close = "placeholder"
    /\ hotplug_callback_dict = {}
    /\ ctx_finalizer_dict = {}
    /\ dev_finalizer_dict = {}
    /\ handle_finalizer_dict = {}
    /\ handle_inflight = {}
    /\ cpc = [ th \in Threads |-> "idle" ]
    /\ ckind = [ th \in Threads |-> "plain" ]

\* The parts of the state that are described further down.  A context with
\* no USBPoller: the driver has one descriptor, nobody is notified of the
\* changes.  No hotplug callback is registered.  The transfer whose buffer is
\* followed is not created yet.
AuxInitial ==
    /\ driver_fds = {1}
    /\ fd_set = {}
    /\ poller_fds = {}
    /\ notifiers = "null"
    /\ has_pollfd_finalizer = FALSE
    /\ ppc = "none"
    /\ hotplug_live = {}
    /\ hotplug_true = {}
    /\ hotplug_enum = << >>
    /\ xfer = << >>
    /\ helper = [ event_callback_dict |-> << >>,
                  errorCallback |-> "DEFAULT_ASYNC_TRANSFER_ERROR_CALLBACK",
                  pc |-> "idle", selected |-> "none", returned |-> "none" ]
    /\ tpc = [ th \in Threads |-> << >> ]

\* ------------------------------------------------------------------- Init
Init ==
    /\ transfer = [ t \in Transfers |-> "NotCreated" ]
    /\ num_iso_packets = [ t \in Transfers |-> 0 ]
    /\ initialized = [ t \in Transfers |-> FALSE ]
    /\ doomed = [ t \in Transfers |-> FALSE ]
    /\ ttype = [ t \in Transfers |-> TRANSFER_TYPE_CONTROL ]
    /\ buflen = [ t \in Transfers |-> NoBuffer ]
    /\ submitted_dict = {}
    /\ inflight = {}
    /\ native = [ t \in Transfers |-> "idle" ]
    /\ dispatching = {}
    /\ last = [ op |-> "init", exc |-> "ok", native |-> "none" ]
    /\ hpc = "open"
    /\ cancelled_set = {}
    /\ fin = [ t \in Transfers |-> "none" ]
    /\ due = {}
    /\ closeStart = {}
    /\ ndispatch = 0
    /\ nsubmit = 0
    /\ ContextInitial
    /\ AuxInitial

\* --------------------------------------------------------------- getTransfer
\* USBDeviceHandle.getTransfer -> USBTransfer.__init__
GetTransfer(t) ==
    /\ transfer[t] = "NotCreated"
    /\ \E iso_packets \in { -1, 0, IsoSlots } :
         IF iso_packets < 0
         THEN /\ last' = Ret("getTransfer", t, "ValueError", "none")
              /\ UNCHANGED << transfer, num_iso_packets >>
         ELSE \/ /\ last' = Ret("getTransfer", t, "USBErrorNoMem", "alloc")
                 /\ UNCHANGED << transfer, num_iso_packets >>
              \/ /\ transfer' = [ transfer EXCEPT ![t] = "Ptr" ]
                 /\ num_iso_packets' = [ num_iso_packets EXCEPT ![t] = iso_packets ]
                 /\ last' = Ret("getTransfer", t, "ok", "alloc")
    /\ UNCHANGED << initialized, doomed, ttype, buflen, submitted_dict, inflight,
                    native, dispatching >>

\* An operation that raises before changing anything.
Raise(op, t, exc) ==
    /\ last' = Ret(op, t, exc, "none")
    /\ UNCHANGED << transfer, num_iso_packets, initialized, doomed, ttype, buflen,
                    submitted_dict, inflight, native, dispatching >>

\* The assignments of a configuration method that got past its checks:
\* buffer replaced, native descriptor filled, __initialized set to `ready`.
Fill(op, t, type, length, ready) ==
    /\ initialized' = [ initialized EXCEPT ![t] = ready ]
    /\ ttype' = [ ttype EXCEPT ![t] = type ]
    /\ buflen' = [ buflen EXCEPT ![t] = length ]
    /\ last' = Ret(op, t, IF ready THEN "ok" ELSE "ValueError", "fill")
    /\ UNCHANGED << transfer, num_iso_packets, doomed, submitted_dict, inflight,
                    native, dispatching >>

\* ---------------------------------------------------------------- setControl
\* Variant of setControlCheck without the doomed test.
setControlCheck_noDoomedTest(t) ==
    IF isSubmitted(t) THEN "ValueError" ELSE "ok"

\* The checks setControl makes before it touches anything.
setControlCheck(t) ==
    IF isSubmitted(t) THEN "ValueError"
    ELSE IF doomed[t] THEN "DoomedTransferError"
    ELSE "ok"

SetControl(t) ==
    /\ Created(t)
    /\ IF setControlCheck(t) # "ok"
       THEN Raise("setControl", t, setControlCheck(t))
       ELSE \E length \in 0..MaxBufLen :
              Fill("setControl", t, TRANSFER_TYPE_CONTROL, length + CONTROL_SETUP_SIZE, TRUE)

\* ------------------------------------------------------------------- setBulk
setBulkCheck(t) ==
    IF isSubmitted(t) THEN "ValueError"
    ELSE IF doomed[t] THEN "DoomedTransferError"
    ELSE "ok"

SetBulk(t) ==
    /\ Created(t)
    /\ IF setBulkCheck(t) # "ok"
       THEN Raise("setBulk", t, setBulkCheck(t))
       ELSE \E length \in 0..MaxBufLen :
              Fill("setBulk", t, TRANSFER_TYPE_BULK, length, TRUE)

\* -------------------------------------------------------------- setInterrupt
setInterruptCheck(t) ==
    IF isSubmitted(t) THEN "ValueError"
    ELSE IF doomed[t] THEN "DoomedTransferError"
    ELSE "ok"

SetInterrupt(t) ==
    /\ Created(t)
    /\ IF setInterruptCheck(t) # "ok"
       THEN Raise("setInterrupt", t, setInterruptCheck(t))
       ELSE \E length \in 0..MaxBufLen :
              Fill("setInterrupt", t, TRANSFER_TYPE_INTERRUPT, length, TRUE)

\* ------------------------------------------------------------ setIsochronous
RECURSIVE SumSeq(_)
SumSeq(s) == IF s = << >> THEN 0 ELSE Head(s) + SumSeq(Tail(s))

\* The iso_transfer_length_list arguments tried: None (IsoNone stands
\* for it), the empty list, lists with a null length, lists that fit, one entry
\* too many, and a sum above any buffer.
IsoNone == << -1 >>
IsoLengthLists ==
    { IsoNone, << >>, << 0 >>, << 1 >>, << MaxBufLen >>, << MaxBufLen + 1 >>,
      [ i \in 1..IsoSlots |-> 1 ], [ i \in 1..(IsoSlots + 1) |-> 1 ] }

\* The checks setIsochronous makes on the transfer before it reads its
\* arguments.
setIsochronousCheck(t) ==
    IF isSubmitted(t) THEN "ValueError"
    ELSE IF num_iso_packets[t] = 0 THEN "TypeError"
    ELSE IF doomed[t] THEN "DoomedTransferError"
    ELSE "ok"

\* The list setIsochronous configures: the given one, or the buffer divided
\* evenly among the allocated slots.
isoTransferLengthList(t, buffer_length, given) ==
    IF given = IsoNone
    THEN [ i \in 1..num_iso_packets[t] |-> buffer_length \div num_iso_packets[t] ]
    ELSE given

\* The checks on the arguments, made before anything is assigned.
setIsochronousArgCheck(t, buffer_length, given) ==
    IF given = IsoNone /\ buffer_length % num_iso_packets[t] # 0 THEN "ValueError"
    ELSE IF Len(isoTransferLengthList(t, buffer_length, given)) > num_iso_packets[t]
    THEN "ValueError"
    ELSE IF SumSeq(isoTransferLengthList(t, buffer_length, given)) > buffer_length
    THEN "ValueError"
    ELSE "ok"

\* The loop over the packet descriptors raises on the first length <= 0, after
\* __initialized was cleared and the descriptor filled.
isoLengthsPositive(lst) == \A i \in 1..Len(lst) : lst[i] > 0

SetIsochronous(t) ==
    /\ Created(t)
    /\ IF setIsochronousCheck(t) # "ok"
       THEN Raise("setIsochronous", t, setIsochronousCheck(t))
       ELSE \E buffer_length \in 0..MaxBufLen, given \in IsoLengthLists :
              IF setIsochronousArgCheck(t, buffer_length, given) # "ok"
              THEN Raise("setIsochronous", t,
                         setIsochronousArgCheck(t, buffer_length, given))
              ELSE Fill("setIsochronous", t, TRANSFER_TYPE_ISOCHRONOUS,
                        buffer_length,
                        isoLengthsPositive(
                            isoTransferLengthList(t, buffer_length, given)))

\* ----------------------------------------------------------------- setBuffer
\* Variant of setBufferCheck without the isSubmitted() test.
setBufferCheck_noSubmittedTest(t, length) ==
    IF transfer[t] = "None" THEN "AttributeError"
    ELSE IF ttype[t] = TRANSFER_TYPE_CONTROL THEN "ValueError"
    ELSE IF ttype[t] = TRANSFER_TYPE_ISOCHRONOUS /\ length # buflen[t]
    THEN "ValueError"
    ELSE "ok"

setBufferCheck(t, length) ==
    IF isSubmitted(t) THEN "ValueError"
    ELSE IF transfer[t] = "None" THEN "AttributeError"
    ELSE IF ttype[t] = TRANSFER_TYPE_CONTROL THEN "ValueError"
    ELSE IF ttype[t] = TRANSFER_TYPE_ISOCHRONOUS /\ length # buflen[t]
    THEN "ValueError"
    ELSE "ok"

SetBuffer(t) ==
    /\ Created(t)
    /\ \E length \in 0..MaxBufLen :
         IF setBufferCheck(t, length) # "ok"
         THEN Raise("setBuffer", t, setBufferCheck(t, length))
         ELSE /\ buflen' = [ buflen EXCEPT ![t] = length ]
              /\ last' = Ret("setBuffer", t, "ok", "none")
              /\ UNCHANGED << transfer, num_iso_packets, initialized, doomed, ttype,
                              submitted_dict, inflight, native,
                              dispatching >>

\* -------------------------------------------------------------------- submit
\* Variant of submitCheck without the doomed test.
submitCheck_noDoomedTest(t) ==
    IF isSubmitted(t) THEN "ValueError"
    ELSE IF ~initialized[t] THEN "ValueError"
    ELSE "ok"

\* The checks submit makes before it registers anything.
submitCheck(t) ==
    IF isSubmitted(t) THEN "ValueError"
    ELSE IF ~initialized[t] THEN "ValueError"
    ELSE IF doomed[t] THEN "DoomedTransferError"
    ELSE "ok"

\* Variant of submitFailed that forgets to pop the registry entry.
submitFailed_keepsRegistry(t, result) ==
    /\ inflight' = (inflight \cup {t}) \ {t}
    /\ submitted_dict' = submitted_dict \cup {t}
    /\ last' = [ op |-> "submit", t |-> t, exc |-> raiseUSBError(result),
                 native |-> "submit", result |-> result ]
    /\ UNCHANGED << transfer, num_iso_packets, initialized, doomed, ttype, buflen,
                    native, dispatching >>

\* Variant of submitFailed that forgets self.__after_completion(self): the
\* registry entry is popped and the in-flight membership is kept.
submitFailed_keepsInflight(t, result) ==
    /\ inflight' = inflight \cup {t}
    /\ submitted_dict' = (submitted_dict \cup {t}) \ {t}
    /\ last' = [ op |-> "submit", t |-> t, exc |-> raiseUSBError(result),
                 native |-> "submit", result |-> result ]
    /\ UNCHANGED << transfer, num_iso_packets, initialized, doomed, ttype, buflen,
                    native, dispatching >>

\* The native submit call returned a failure: both registrations made before
\* the call are reversed and the status is raised as its USBError subclass.
submitFailed(t, result) ==
    /\ inflight' = (inflight \cup {t}) \ {t}
    /\ submitted_dict' = (submitted_dict \cup {t}) \ {t}
    /\ last' = [ op |-> "submit", t |-> t, exc |-> raiseUSBError(result),
                 native |-> "submit", result |-> result ]
    /\ UNCHANGED << transfer, num_iso_packets, initialized, doomed, ttype, buflen,
                    native, dispatching >>

\* The native submit call returned 0: the driver holds the transfer.
submitSucceeded(t) ==
    /\ inflight' = inflight \cup {t}
    /\ submitted_dict' = submitted_dict \cup {t}
    /\ native' = [ native EXCEPT ![t] = "pending" ]
    /\ last' = Ret("submit", t, "ok", "submit")
    /\ UNCHANGED << transfer, num_iso_packets, initialized, doomed, ttype, buflen,
                    dispatching >>

Submit(t) ==
    /\ Created(t)
    /\ IF submitCheck(t) # "ok"
       THEN Raise("submit", t, submitCheck(t))
       ELSE \E result \in NativeSubmitResults(t) :
              IF result # SUCCESS
              THEN submitFailed(t, result)
              ELSE submitSucceeded(t)

\* -------------------------------------------------------------------- cancel
\* Variant of cancelCheck that lets every cancel() through to the driver.
cancelCheck_none(t) == "ok"

cancelCheck(t) ==
    IF ~isSubmitted(t) THEN "USBErrorNotFound" ELSE "ok"

\* Variant of cancelCalled that treats a successful cancel as the end of the
\* submission: it drops the registry entry and the in-flight membership.
cancelCalled_unregisters(t, result) ==
    /\ native' = [ native EXCEPT
                     ![t] = IF result = SUCCESS THEN "cancelling" ELSE @ ]
    /\ submitted_dict' = IF result = SUCCESS THEN submitted_dict \ {t}
                         ELSE submitted_dict
    /\ inflight' = IF result = SUCCESS THEN inflight \ {t} ELSE inflight
    /\ last' = Ret("cancel", t, mayRaiseUSBError(result), "cancel")
    /\ UNCHANGED << transfer, num_iso_packets, initialized, doomed, ttype, buflen,
                    dispatching >>

\* The native cancel call was made and returned `result`: the driver notes
\* the request when it returns 0, and nothing else changes.
cancelCalled(t, result) ==
    /\ native' = [ native EXCEPT
                     ![t] = IF result = SUCCESS THEN "cancelling" ELSE @ ]
    /\ last' = Ret("cancel", t, mayRaiseUSBError(result), "cancel")
    /\ UNCHANGED << transfer, num_iso_packets, initialized, doomed, ttype, buflen,
                    submitted_dict, inflight, dispatching >>

Cancel(t) ==
    /\ Created(t)
    /\ IF cancelCheck(t) # "ok"
       THEN Raise("cancel", t, cancelCheck(t))
       ELSE \E result \in NativeCancelResults(t) : cancelCalled(t, result)

\* ---------------------------------------------------------------------- doom
\* Variant of Doom in which a second doom() clears the flag.
Doom_toggle(t) ==
    /\ Created(t)
    /\ doomed' = [ doomed EXCEPT ![t] = ~@ ]
    /\ last' = Ret("doom", t, "ok", "none")
    /\ UNCHANGED << transfer, num_iso_packets, initialized, ttype, buflen,
                    submitted_dict, inflight, native, dispatching >>

\* self.__doomed = True
Doom(t) ==
    /\ Created(t)
    /\ doomed' = [ doomed EXCEPT ![t] = TRUE ]
    /\ last' = Ret("doom", t, "ok", "none")
    /\ UNCHANGED << transfer, num_iso_packets, initialized, ttype, buflen,
                    submitted_dict, inflight, native, dispatching >>

\* --------------------------------------------------------------------- close
closeCheck(t) ==
    IF isSubmitted(t) THEN "ValueError" ELSE "ok"

\* Variant of closeNative that calls __close itself, not its finalizer.
closeNative_direct(t) ==
    IF transfer[t] = "Ptr" THEN "free" ELSE "none"

\* The native call of close(): self.__close is a weakref.finalize object,
\* which frees the descriptor the first time it is called and does nothing
\* afterwards, whoever called it first (close(), the handle's close() or
\* garbage collection).  A finalizer that is not followed ("none") is alive
\* for as long as the object holds its descriptor.
closeNative(t) ==
    IF transfer[t] = "Ptr" /\ fin[t] \in { "none", "armed" }
    THEN "free" ELSE "none"

\* The assignments of close() on a transfer that is not submitted.  The
\* descriptor is gone with its type and length: both are reset.
closeAssign(t) ==
    /\ doomed' = [ doomed EXCEPT ![t] = TRUE ]
    /\ initialized' = [ initialized EXCEPT ![t] = FALSE ]
    /\ transfer' = [ transfer EXCEPT ![t] = "None" ]
    /\ ttype' = [ ttype EXCEPT ![t] = TRANSFER_TYPE_CONTROL ]
    /\ buflen' = [ buflen EXCEPT ![t] = NoBuffer ]
    /\ UNCHANGED << num_iso_packets, submitted_dict, inflight, native>>

Close(t) ==
    /\ Created(t)
    /\ IF closeCheck(t) # "ok"
       THEN Raise("close", t, closeCheck(t))
       ELSE /\ closeAssign(t)
            /\ last' = Ret("close", t, "ok", closeNative(t))
            /\ UNCHANGED dispatching

\* ------------------------------------------------------- completion dispatch
\* The record of a completion dispatch: the status the driver reported.
Dispatched(t, exc, status) ==
    [ op |-> "callbackWrapper", t |-> t, exc |-> exc, native |-> "none",
      status |-> status ]

\* Variant of callbackWrapperPop that looks the entry up and leaves it.
callbackWrapperPop_peek(t) == submitted_dict

\* cls.__submitted_dict.pop(address): the registry without the entry.
callbackWrapperPop(t) == submitted_dict \ {t}

\* Variant of callbackWrapperAfterCompletion run after the user callback
\* instead of before it: the callback starts with the transfer in flight.
callbackWrapperAfterCompletion_late(t) == inflight

\* self.__after_completion(self), the handle's inflight.remove: the in-flight
\* set without the transfer.
callbackWrapperAfterCompletion(t) == inflight \ {t}

\* __callbackWrapper up to the call of the user callback: the driver hands a
\* transfer back, the registry entry is popped (KeyError when there is none),
\* the handle's in-flight set drops the transfer (KeyError when it is not a
\* member) and the user callback starts.
DispatchBegin(t) ==
    /\ dispatching = {}
    /\ native[t] # "idle"
    /\ \E status \in NativeCompletionStatuses(t) :
         /\ native' = [ native EXCEPT ![t] = "idle" ]
         /\ IF t \notin submitted_dict
            THEN /\ last' = Dispatched(t, "KeyError", status)
                 /\ UNCHANGED << submitted_dict, inflight, dispatching >>
            ELSE IF t \notin inflight
            THEN /\ submitted_dict' = callbackWrapperPop(t)
                 /\ last' = Dispatched(t, "KeyError", status)
                 /\ UNCHANGED << inflight, dispatching >>
            ELSE /\ submitted_dict' = callbackWrapperPop(t)
                 /\ inflight' = callbackWrapperAfterCompletion(t)
                 /\ dispatching' = {t}
                 /\ last' = Dispatched(t, "ok", status)
    /\ UNCHANGED << transfer, num_iso_packets, initialized, doomed, ttype, buflen >>

\* __callbackWrapper after the user callback returned: a doomed transfer is
\* closed, and close() raises on a transfer that is submitted again.
DispatchEnd(t) ==
    /\ t \in dispatching
    /\ dispatching' = {}
    /\ IF ~doomed[t]
       THEN /\ last' = Ret("callbackReturn", t, "ok", "none")
            /\ UNCHANGED << transfer, num_iso_packets, initialized, doomed, ttype,
                            buflen, submitted_dict, inflight, native>>
       ELSE IF closeCheck(t) # "ok"
       THEN /\ last' = Ret("callbackReturn", t, closeCheck(t), "none")
            /\ UNCHANGED << transfer, num_iso_packets, initialized, doomed, ttype,
                            buflen, submitted_dict, inflight, native>>
       ELSE /\ closeAssign(t)
            /\ last' = Ret("callbackReturn", t, "ok", closeNative(t))

\* The user callback raised: __callbackWrapper is left by the exception before
\* it looks at the doomed flag.
CallbackRaises(t) ==
    /\ t \in dispatching
    /\ dispatching' = {}
    /\ last' = Ret("callbackReturn", t, "CallbackError", "none")
    /\ UNCHANGED << transfer, num_iso_packets, initialized, doomed, ttype, buflen,
                    submitted_dict, inflight, native>>

\* ---------------------------------------------------------------------- Next
Next ==
    \E t \in Transfers :
        \/ GetTransfer(t) /\ UNCHANGED << hvars, cvars, auxvars >>
        \/ SetControl(t) /\ UNCHANGED << hvars, cvars, auxvars >>
        \/ SetBulk(t) /\ UNCHANGED << hvars, cvars, auxvars >>
        \/ SetInterrupt(t) /\ UNCHANGED << hvars, cvars, auxvars >>
        \/ SetIsochronous(t) /\ UNCHANGED << hvars, cvars, auxvars >>
        \/ SetBuffer(t) /\ UNCHANGED << hvars, cvars, auxvars >>
        \/ Submit(t) /\ UNCHANGED << hvars, cvars, auxvars >>
        \/ Cancel(t) /\ UNCHANGED << hvars, cvars, auxvars >>
        \/ Doom(t) /\ UNCHANGED << hvars, cvars, auxvars >>
        \/ Close(t) /\ UNCHANGED << hvars, cvars, auxvars >>
        \/ DispatchBegin(t) /\ UNCHANGED << hvars, cvars, auxvars >>
        \/ DispatchEnd(t) /\ UNCHANGED << hvars, cvars, auxvars >>
        \/ CallbackRaises(t) /\ UNCHANGED << hvars, cvars, auxvars >>

Spec == Init /\ [][Next]_vars

\* Event processing is fair: a completion the driver holds is eventually
\* dispatched by handleEvents, and a user callback eventually ends.
Fairness ==
    \A t \in Transfers :
        /\ SF_vars(DispatchBegin(t) /\ UNCHANGED << hvars, cvars, auxvars >>)
        /\ WF_vars((DispatchEnd(t) \/ CallbackRaises(t))
                       /\ UNCHANGED << hvars, cvars, auxvars >>)

FairSpec == Spec /\ Fairness

\* ======================================================================
\* USBDeviceHandle.close and the transfer finalizer
\* ======================================================================
\* The transfers of one device handle, the user's top-level code (one
\* thread), the completion callbacks, the transfer finalizer
\* (USBTransfer.__close, called by close(), by garbage collection or at
\* interpreter shutdown) and USBDeviceHandle.close().  close() and the
\* finalizer block inside context.handleEvents(): while they do, the only
\* user code that runs is the user callbacks of the completions dispatched.
\* Of the configuration methods setBulk stands for all four; they differ in
\* what they write to the descriptor, which close() does not read.

\* What libusb_handle_events can return.
HandleEventsResults == { SUCCESS, ERROR_INTERRUPTED, ERROR_OTHER }

\* Some finalizer is inside its drain loop.
FinalizerDraining == \E t \in HTransfers : fin[t] = "events"

\* User code can run: inside a user callback, or at top level while neither
\* close() nor a finalizer holds the thread.
UserCanRun ==
    \/ dispatching # {}
    \/ (hpc = "open" /\ ~FinalizerDraining)

\* Somebody is inside handleEvents: the user's event loop, close()'s drain
\* loop or a finalizer's drain loop.
EventsRunning ==
    \/ hpc = "events"
    \/ FinalizerDraining
    \/ hpc = "open"

\* What a method of transfer t leaves behind for its finalizer and for
\* the counts of a close() in progress.
HTrack(t) ==
    /\ fin' = [ fin EXCEPT ![t] =
                  IF last'.op = "getTransfer" /\ last'.exc = "ok" THEN "armed"
                  ELSE IF last'.native = "free" THEN "freed"
                  ELSE @ ]
    /\ due' = IF last'.native = "cancel"
                 /\ last'.exc \in { "ok", "USBErrorNotFound", "USBErrorNoDevice" }
              THEN due \cup {t} ELSE due
    /\ nsubmit' = IF hpc # "open" /\ last'.op = "submit" /\ last'.exc = "ok"
                  THEN nsubmit + 1 ELSE nsubmit
    /\ UNCHANGED << hpc, cancelled_set, closeStart, ndispatch >>

HandleInit ==
    /\ transfer = [ t \in HTransfers |-> "NotCreated" ]
    /\ num_iso_packets = [ t \in HTransfers |-> 0 ]
    /\ initialized = [ t \in HTransfers |-> FALSE ]
    /\ doomed = [ t \in HTransfers |-> FALSE ]
    /\ ttype = [ t \in HTransfers |-> TRANSFER_TYPE_CONTROL ]
    /\ buflen = [ t \in HTransfers |-> NoBuffer ]
    /\ submitted_dict = {}
    /\ inflight = {}
    /\ native = [ t \in HTransfers |-> "idle" ]
    /\ dispatching = {}
    /\ last = [ op |-> "init", exc |-> "ok", native |-> "none" ]
    /\ hpc = "open"
    /\ cancelled_set = {}
    /\ fin = [ t \in HTransfers |-> "none" ]
    /\ due = {}
    /\ closeStart = {}
    /\ ndispatch = 0
    /\ nsubmit = 0
    /\ ContextInitial
    /\ AuxInitial

\* handle.getTransfer() with the default iso_packets=0.
HGetTransfer(t) ==
    /\ UserCanRun
    /\ GetTransfer(t)
    /\ num_iso_packets'[t] = 0
    /\ last'.exc # "ValueError"
    /\ HTrack(t)

HSetBulk(t) ==
    /\ UserCanRun
    /\ fin[t] = "armed"
    /\ SetBulk(t)
    /\ HTrack(t)

HSubmit(t) ==
    /\ UserCanRun
    /\ fin[t] = "armed"
    /\ hpc = "open" \/ nsubmit < MaxDrainSubmits
    /\ Submit(t)
    /\ HTrack(t)

HCancel(t) ==
    /\ UserCanRun
    /\ fin[t] = "armed"
    /\ Cancel(t)
    /\ HTrack(t)

HDoom(t) ==
    /\ UserCanRun
    /\ fin[t] = "armed"
    /\ Doom(t)
    /\ HTrack(t)

HClose(t) ==
    /\ UserCanRun
    /\ fin[t] = "armed"
    /\ Close(t)
    /\ HTrack(t)

\* A completion dispatched by whoever is inside handleEvents.
HDispatchBegin(t) ==
    /\ EventsRunning
    /\ DispatchBegin(t)
    /\ due' = due \ {t}
    /\ ndispatch' = IF hpc # "open" /\ last'.exc = "ok"
                    THEN ndispatch + 1 ELSE ndispatch
    /\ UNCHANGED << hpc, cancelled_set, fin, closeStart, nsubmit >>

HDispatchEnd(t) ==
    /\ DispatchEnd(t)
    /\ HTrack(t)

HCallbackRaises(t) ==
    /\ CallbackRaises(t)
    /\ UNCHANGED << hvars, cvars, auxvars >>

\* USBContext.handleEvents() called by the user's own event loop: the status
\* of the blocking call goes through mayRaiseUSBError.
HandleEvents ==
    /\ hpc = "open"
    /\ ~FinalizerDraining
    /\ dispatching = {}
    /\ \E result \in HandleEventsResults :
         last' = [ op |-> "handleEvents", exc |-> mayRaiseUSBError(result),
                   native |-> "handle_events", result |-> result ]
    /\ UNCHANGED << transfer, num_iso_packets, initialized, doomed, ttype, buflen,
                    submitted_dict, inflight, native, dispatching, hvars >>

\* ------------------------------------------------ USBTransfer.__close
\* Variant of drainSwallows for a drain loop without `except
\* USBErrorInterrupted`.
drainSwallows_okOnly(exc) == exc = "ok"

\* The statuses of handleEvents a drain loop goes on after: success, and
\* USBErrorInterrupted, which it catches.
drainSwallows(exc) == exc \in { "ok", "USBErrorInterrupted" }

\* Variant of finalizerRun that frees the descriptor without looking at the
\* registry.
finalizerRun_noDrain(t) ==
    /\ fin' = [ fin EXCEPT ![t] = "freed" ]
    /\ last' = Ret("finalize", t, "ok", "free")
    /\ UNCHANGED << native, due >>

\* __close up to its first blocking point: a transfer that is still in the
\* registry is cancelled (the status of the native call is not read) and the
\* drain loop is entered; one that is not is freed.
finalizerRun(t) ==
    IF isSubmitted(t)
    THEN \E result \in NativeCancelResults(t) :
           /\ native' = [ native EXCEPT
                            ![t] = IF result = SUCCESS THEN "cancelling" ELSE @ ]
           /\ due' = IF result \in { SUCCESS, ERROR_NOT_FOUND, ERROR_NO_DEVICE }
                     THEN due \cup {t} ELSE due
           /\ fin' = [ fin EXCEPT ![t] = "events" ]
           /\ last' = Ret("finalize", t, "ok", "cancel")
    ELSE /\ fin' = [ fin EXCEPT ![t] = "freed" ]
         /\ last' = Ret("finalize", t, "ok", "free")
         /\ UNCHANGED << native, due >>

\* The finalizer of a transfer called outside close(): by garbage collection
\* or, for a transfer that is still referenced, at interpreter shutdown.
Finalize(t) ==
    /\ hpc = "open"
    /\ dispatching = {}
    /\ ~FinalizerDraining
    /\ fin[t] = "armed"
    /\ finalizerRun(t)
    /\ UNCHANGED << transfer, num_iso_packets, initialized, doomed, ttype, buflen,
                    submitted_dict, inflight, dispatching,
                    hpc, cancelled_set, closeStart, ndispatch, nsubmit >>

\* context.handleEvents() returned inside the finalizer's drain loop.
FinalizeEventsReturn(t) ==
    /\ fin[t] = "events"
    /\ dispatching = {}
    /\ \E result \in HandleEventsResults :
         IF ~drainSwallows(mayRaiseUSBError(result))
         THEN /\ fin' = [ fin EXCEPT ![t] = "failed" ]
              /\ hpc' = IF hpc = "finalizing" THEN "failed" ELSE hpc
              /\ last' = [ op |-> "finalize", t |-> t,
                           exc |-> mayRaiseUSBError(result),
                           native |-> "handle_events", result |-> result ]
         ELSE IF isSubmitted(t)
         THEN /\ last' = [ op |-> "finalize", t |-> t, exc |-> "ok",
                           native |-> "handle_events", result |-> result ]
              /\ UNCHANGED << fin, hpc >>
         ELSE /\ fin' = [ fin EXCEPT ![t] = "freed" ]
              /\ last' = [ op |-> "finalize", t |-> t, exc |-> "ok",
                           native |-> "free", result |-> result ]
              /\ UNCHANGED hpc
    /\ UNCHANGED << transfer, num_iso_packets, initialized, doomed, ttype, buflen,
                    submitted_dict, inflight, native, dispatching,
                    cancelled_set, due, closeStart, ndispatch, nsubmit >>

\* ---------------------------------------------- USBDeviceHandle.close
\* Variant of handleCloseSwallows that catches USBErrorNotFound alone.
handleCloseSwallows_notFoundOnly(exc) == exc \in { "ok", "USBErrorNotFound" }

\* The exceptions of transfer.cancel() that close() takes as success.
handleCloseSwallows(exc) ==
    exc \in { "ok", "USBErrorNotFound", "USBErrorNoDevice" }

\* What transfer.cancel() gives close(): the refusal of cancel() itself, or
\* the status of the native call.
handleCloseCancelResults(t) ==
    IF cancelCheck(t) # "ok" THEN { ERROR_NOT_FOUND } ELSE NativeCancelResults(t)

\* The test of `while inflight`.
handleCloseLoopDone(cs) == inflight = {}

\* close() from the head of `while inflight` to its next blocking point.
\* `cs` is cancelled_set and `result` the status of the handleEvents call
\* that just returned.  With the in-flight set empty the loop is left.
\* Otherwise cancel() is called on the members that are not in cancelled_set,
\* in the order the set gives: `reach` are those reached and r their statuses;
\* either all are reached and taken as success, or the last one reached
\* raises and close() is left by the exception.
HandleCloseLoop(cs, result) ==
    IF handleCloseLoopDone(cs)
    THEN /\ hpc' = "finalizing"
         /\ cancelled_set' = cs
         /\ last' = [ op |-> "handleClose", exc |-> "ok", native |-> "none",
                      result |-> result ]
         /\ UNCHANGED << native, due >>
    ELSE \E reach \in SUBSET (inflight \ cs) :
         \E r \in [ reach -> { SUCCESS, ERROR_NOT_FOUND, ERROR_NO_DEVICE, ERROR_OTHER } ] :
           LET raising == { t \in reach : ~handleCloseSwallows(mayRaiseUSBError(r[t])) }
           IN  /\ \A t \in reach : r[t] \in handleCloseCancelResults(t)
               /\ \/ (raising = {} /\ reach = inflight \ cs)
                  \/ Cardinality(raising) = 1
               /\ native' = [ t \in DOMAIN native |->
                                IF t \in reach /\ r[t] = SUCCESS
                                THEN "cancelling" ELSE native[t] ]
               /\ due' = due \cup (reach \ raising)
               /\ cancelled_set' = cs \cup (reach \ raising)
               /\ hpc' = IF raising = {} THEN "events" ELSE "failed"
               /\ last' = [ op |-> "handleClose",
                            exc |-> IF raising = {} THEN "ok"
                                    ELSE mayRaiseUSBError(r[CHOOSE t \in raising : TRUE]),
                            native |-> IF reach = {} THEN "handle_events" ELSE "cancel",
                            result |-> result, cancel |-> r ]

\* USBDeviceHandle.close() is called, at top level.
HandleClose ==
    /\ hpc = "open"
    /\ dispatching = {}
    /\ ~FinalizerDraining
    /\ closeStart' = inflight
    /\ ndispatch' = 0
    /\ nsubmit' = 0
    /\ HandleCloseLoop({}, SUCCESS)
    /\ UNCHANGED << transfer, num_iso_packets, initialized, doomed, ttype, buflen,
                    submitted_dict, inflight, dispatching, fin >>

\* context.handleEvents() returned inside close()'s drain loop.
HandleCloseEventsReturn ==
    /\ hpc = "events"
    /\ dispatching = {}
    /\ \E result \in HandleEventsResults :
         IF ~drainSwallows(mayRaiseUSBError(result))
         THEN /\ hpc' = "failed"
              /\ last' = [ op |-> "handleClose", exc |-> mayRaiseUSBError(result),
                           native |-> "handle_events", result |-> result ]
              /\ UNCHANGED << native, due, cancelled_set >>
         ELSE HandleCloseLoop(cancelled_set, result)
    /\ UNCHANGED << transfer, num_iso_packets, initialized, doomed, ttype, buflen,
                    submitted_dict, inflight, dispatching, fin,
                    closeStart, ndispatch, nsubmit >>

\* `while finalizer_dict`: close() calls the finalizer of a transfer.
HandleCloseFinalizer(t) ==
    /\ hpc = "finalizing"
    /\ ~FinalizerDraining
    /\ fin[t] = "armed"
    /\ finalizerRun(t)
    /\ UNCHANGED << transfer, num_iso_packets, initialized, doomed, ttype, buflen,
                    submitted_dict, inflight, dispatching,
                    hpc, cancelled_set, closeStart, ndispatch, nsubmit >>

\* libusb_close(handle): no finalizer is left.
HandleRelease ==
    /\ hpc = "finalizing"
    /\ \A t \in HTransfers : fin[t] \notin { "armed", "events" }
    /\ hpc' = "released"
    /\ last' = [ op |-> "handleClose", exc |-> "ok", native |-> "libusb_close" ]
    /\ UNCHANGED << transfer, num_iso_packets, initialized, doomed, ttype, buflen,
                    submitted_dict, inflight, native, dispatching,
                    cancelled_set, fin, due, closeStart, ndispatch, nsubmit >>

\* ------------------------------------------------ after close() returned
\* A method of transfer t called at top level after close() released the
\* handle.  Nothing resets the object whose finalizer close() ran: its
\* descriptor is freed, and __transfer, __initialized and __doomed are as
\* they were, so the checks of setBulk and submit pass as before and the
\* native call is made.  close() on the object finds its finalizer dead and
\* makes no native call.
HAfterRelease(t) ==
    /\ hpc \in { "released", "closed" }
    /\ fin[t] = "freed"
    /\ \/ SetBulk(t)
       \/ Submit(t)
       \/ /\ Created(t)
          /\ IF closeCheck(t) # "ok"
             THEN Raise("close", t, closeCheck(t))
             ELSE /\ closeAssign(t)
                  /\ last' = Ret("close", t, "ok", closeNative(t))
                  /\ UNCHANGED dispatching
    /\ hpc' = "closed"
    /\ nsubmit' = IF last'.op = "submit" /\ last'.exc = "ok"
                  THEN nsubmit + 1 ELSE nsubmit
    /\ UNCHANGED << cancelled_set, fin, due, closeStart, ndispatch >>

\* Variant of closeFinalizerSpent in which a close() that raised leaves its
\* finalizer alive.
closeFinalizerSpent_unlessRaised == hpc \in { "released", "closed" }

\* handle.close is a weakref.finalize object: it is dead from its first
\* call on, however close() ended.
closeFinalizerSpent == hpc \in { "released", "closed", "failed" }

\* A later call of handle.close(), at top level: a dead finalizer returns
\* None without calling close(); a live one calls it.
HandleCloseAgain ==
    /\ hpc \in { "released", "closed", "failed" }
    /\ dispatching = {}
    /\ ~FinalizerDraining
    /\ IF closeFinalizerSpent
       THEN /\ last' = [ op |-> "handleClose", exc |-> "ok", native |-> "none" ]
            /\ UNCHANGED << hpc, cancelled_set, due, closeStart, ndispatch,
                            nsubmit, native >>
       ELSE /\ closeStart' = inflight
            /\ ndispatch' = 0
            /\ nsubmit' = 0
            /\ HandleCloseLoop({}, SUCCESS)
    /\ UNCHANGED << transfer, num_iso_packets, initialized, doomed, ttype, buflen,
                    submitted_dict, inflight, dispatching, fin >>

\* The handle's finalizer run inside a user callback, which dropped the last
\* reference to the handle, with transfers in flight: close() calls cancel()
\* on them and then context.handleEvents(), from inside the dispatch.  The
\* driver is inside libusb_handle_events already and answers ERROR_BUSY, which
\* close() does not catch.
HandleCloseInCallback ==
    /\ hpc = "open"
    /\ dispatching # {}
    /\ ~FinalizerDraining
    /\ inflight # {}
    /\ \E r \in [ inflight -> { SUCCESS, ERROR_NOT_FOUND, ERROR_NO_DEVICE } ] :
         /\ \A t \in inflight : r[t] \in handleCloseCancelResults(t)
         /\ native' = [ t \in DOMAIN native |->
                          IF t \in inflight /\ r[t] = SUCCESS
                          THEN "cancelling" ELSE native[t] ]
         /\ last' = [ op |-> "handleClose", exc |-> mayRaiseUSBError(ERROR_BUSY),
                      native |-> "handle_events", result |-> ERROR_BUSY,
                      cancel |-> r ]
    /\ due' = due \cup inflight
    /\ cancelled_set' = inflight
    /\ closeStart' = inflight
    /\ ndispatch' = 0
    /\ nsubmit' = 0
    /\ hpc' = "failed"
    /\ UNCHANGED << transfer, num_iso_packets, initialized, doomed, ttype, buflen,
                    submitted_dict, inflight, dispatching, fin >>

HandleNext ==
    \/ \E t \in HTransfers :
          \/ HGetTransfer(t) /\ UNCHANGED << cvars, auxvars >>
          \/ HSetBulk(t) /\ UNCHANGED << cvars, auxvars >>
          \/ HSubmit(t) /\ UNCHANGED << cvars, auxvars >>
          \/ HCancel(t) /\ UNCHANGED << cvars, auxvars >>
          \/ HDoom(t) /\ UNCHANGED << cvars, auxvars >>
          \/ HClose(t) /\ UNCHANGED << cvars, auxvars >>
          \/ HDispatchBegin(t) /\ UNCHANGED << cvars, auxvars >>
          \/ HDispatchEnd(t) /\ UNCHANGED << cvars, auxvars >>
          \/ HCallbackRaises(t) /\ UNCHANGED << cvars, auxvars >>
          \/ Finalize(t) /\ UNCHANGED << cvars, auxvars >>
          \/ FinalizeEventsReturn(t) /\ UNCHANGED << cvars, auxvars >>
          \/ HandleCloseFinalizer(t) /\ UNCHANGED << cvars, auxvars >>
          \/ HAfterRelease(t) /\ UNCHANGED << cvars, auxvars >>
    \/ HandleEvents /\ UNCHANGED << cvars, auxvars >>
    \/ HandleClose /\ UNCHANGED << cvars, auxvars >>
    \/ HandleCloseEventsReturn /\ UNCHANGED << cvars, auxvars >>
    \/ HandleRelease /\ UNCHANGED << cvars, auxvars >>
    \/ HandleCloseAgain /\ UNCHANGED << cvars, auxvars >>
    \/ HandleCloseInCallback /\ UNCHANGED << cvars, auxvars >>

HandleSpec == HandleInit /\ [][HandleNext]_vars

\* The premise under which close() is expected to return: event handling
\* dispatches the completion of every submission whose cancellation was
\* requested; user callbacks end; the drain loops and the finalizer loop go on.
HandleFairness ==
    /\ \A t \in HTransfers :
          /\ SF_vars(HDispatchBegin(t) /\ t \in due /\ UNCHANGED << cvars, auxvars >>)
          /\ WF_vars((HDispatchEnd(t) \/ HCallbackRaises(t))
                         /\ UNCHANGED << cvars, auxvars >>)
          /\ SF_vars(FinalizeEventsReturn(t) /\ UNCHANGED << cvars, auxvars >>)
          /\ WF_vars(HandleCloseFinalizer(t) /\ UNCHANGED << cvars, auxvars >>)
    /\ SF_vars(HandleCloseEventsReturn /\ UNCHANGED << cvars, auxvars >>)
    /\ WF_vars(HandleRelease /\ UNCHANGED << cvars, auxvars >>)

HandleFairSpec == HandleSpec /\ HandleFairness

\* ======================================================================
\* USBContext: implicit opening, the in-progress call count, close()
\* ======================================================================
\* Threads call the methods of one USBContext: methods wrapped by
\* _validContext (plain ones and the generator getDeviceIterator), open() and
\* close().  The objects created from the context form the finalizer
\* hierarchy: the context's _finalizer_dict holds the devices, a device's the
\* handle opened on it, a handle's its transfer; object o stands for device o,
\* for the handle opened on it and for that handle's transfer.
\* _validContext takes __context_cond around its entry and its exit, close()
\* holds it from the end of its wait to its end: a section run under the lock
\* is one step, taken only when no other thread holds the lock.

\* What libusb_init_context can return.
NativeInitResults == { SUCCESS, ERROR_OTHER }

\* The lock of __context_cond (an RLock) can be taken by thread th.
ctxLockFree(th) == context_cond \subseteq {th}

\* The record of a step of thread th on the context.
CtxRet(op, th, exc, nat, result) ==
    [ op |-> op, th |-> th, exc |-> exc, native |-> nat, result |-> result ]

\* ------------------------------------------------------------------ open
\* open() / __enter__, called explicitly: the two assertions, then
\* libusb_init_context, then the finalizer of the context is created.
CtxOpen(th) ==
    /\ cpc[th] = "idle"
    /\ IF context_refcount # 0 \/ context_p = "valid"
       THEN /\ last' = CtxRet("open", th, "AssertionError", "none", "raise")
            /\ UNCHANGED << context_p, ctx_close >>
       ELSE \E result \in NativeInitResults :
              IF mayRaiseUSBError(result) # "ok"
              THEN /\ last' = CtxRet("open", th, mayRaiseUSBError(result),
                                     "libusb_init", "raise")
                   /\ UNCHANGED << context_p, ctx_close >>
              ELSE /\ context_p' = "valid"
                   /\ ctx_close' = "alive"
                   /\ last' = CtxRet("open", th, "ok", "libusb_init", "self")
    /\ UNCHANGED << auto_open, context_refcount, context_cond,
                    hotplug_callback_dict, ctx_finalizer_dict, dev_finalizer_dict,
                    handle_finalizer_dict, handle_inflight, cpc, ckind >>

\* ---------------------------------------------------------- _validContext
\* Variant of ctxAutoOpens that ignores __auto_open.
ctxAutoOpens_always == context_p = "null"

\* The test of refcount(): the context is opened on the way in.
ctxAutoOpens == context_p = "null" /\ auto_open

\* refcount() up to its yield, under the lock: the context is opened when it
\* was never opened, and the count of calls in progress goes up.  For a
\* generator method this is run by the first next() on the generator.
GuardedEnter(th) ==
    /\ cpc[th] = "idle"
    /\ ctxLockFree(th)
    /\ \E kind \in { "plain", "generator" } :
         /\ ckind' = [ ckind EXCEPT ![th] = kind ]
         /\ IF ~ctxAutoOpens
            THEN /\ context_refcount' = context_refcount + 1
                 /\ cpc' = [ cpc EXCEPT ![th] = "entered" ]
                 /\ last' = CtxRet("enter", th, "ok", "none", kind)
                 /\ UNCHANGED << context_p, ctx_close >>
            ELSE IF context_refcount # 0
            THEN /\ last' = CtxRet("enter", th, "AssertionError", "none", kind)
                 /\ UNCHANGED << context_p, ctx_close, context_refcount, cpc >>
            ELSE \E result \in NativeInitResults :
                   IF mayRaiseUSBError(result) # "ok"
                   THEN /\ last' = CtxRet("enter", th, mayRaiseUSBError(result),
                                          "libusb_init", kind)
                        /\ UNCHANGED << context_p, ctx_close, context_refcount, cpc >>
                   ELSE /\ context_p' = "valid"
                        /\ ctx_close' = "alive"
                        /\ context_refcount' = context_refcount + 1
                        /\ cpc' = [ cpc EXCEPT ![th] = "entered" ]
                        /\ last' = CtxRet("enter", th, "ok", "libusb_init", kind)
    /\ UNCHANGED << auto_open, context_cond, hotplug_callback_dict,
                    ctx_finalizer_dict, dev_finalizer_dict, handle_finalizer_dict,
                    handle_inflight >>

\* What wrapper() gives when the context is closed: None from a plain
\* method; from a generator method, a generator that yields nothing.
guardedClosedResult(kind) ==
    IF kind = "plain" THEN "None" ELSE "EmptyIterator"

\* wrapper() inside refcount(): `if self.__context_p` is read without the
\* lock; the wrapped method is called, or the call is skipped.
GuardedBody(th) ==
    /\ cpc[th] = "entered"
    /\ IF context_p = "valid"
       THEN /\ cpc' = [ cpc EXCEPT ![th] = "native" ]
            /\ last' = CtxRet("call", th, "ok", "call", "running")
       ELSE /\ cpc' = [ cpc EXCEPT ![th] = "leaving" ]
            /\ last' = CtxRet("call", th, "ok", "none",
                              guardedClosedResult(ckind[th]))
    /\ UNCHANGED << context_p, auto_open, context_refcount, context_cond,
                    ctx_close, hotplug_callback_dict, ctx_finalizer_dict,
                    dev_finalizer_dict, handle_finalizer_dict, handle_inflight,
                    ckind >>

\* The wrapped method returns: getDeviceIterator has created a device,
\* hotplugRegisterCallback has registered a callback, any other method has
\* created nothing.
GuardedNativeReturn(th) ==
    /\ cpc[th] = "native"
    /\ cpc' = [ cpc EXCEPT ![th] = "leaving" ]
    /\ \/ /\ ckind[th] = "generator"
          /\ \E d \in CtxObjects \ (ctx_finalizer_dict \cup handle_finalizer_dict) :
               ctx_finalizer_dict' = ctx_finalizer_dict \cup {d}
          /\ UNCHANGED hotplug_callback_dict
       \/ /\ ckind[th] = "plain"
          /\ \E handle \in HotplugHandles \ hotplug_callback_dict :
               hotplug_callback_dict' = hotplug_callback_dict \cup {handle}
          /\ UNCHANGED ctx_finalizer_dict
       \/ UNCHANGED << ctx_finalizer_dict, hotplug_callback_dict >>
    /\ last' = CtxRet("return", th, "ok", "call", "value")
    /\ UNCHANGED << context_p, auto_open, context_refcount, context_cond,
                    ctx_close, dev_finalizer_dict, handle_finalizer_dict,
                    handle_inflight, ckind >>

\* refcount() after its yield, under the lock: the count goes down and the
\* waiters are notified when it reaches zero.
GuardedExit(th) ==
    /\ cpc[th] = "leaving"
    /\ ctxLockFree(th)
    /\ context_refcount' = context_refcount - 1
    /\ cpc' = [ cpc EXCEPT ![th] = "idle" ]
    /\ ckind' = [ ckind EXCEPT ![th] = "plain" ]
    /\ last' = CtxRet("exit", th, "ok", "none", "none")
    /\ UNCHANGED << context_p, auto_open, context_cond, ctx_close,
                    hotplug_callback_dict, ctx_finalizer_dict, dev_finalizer_dict,
                    handle_finalizer_dict, handle_inflight >>

\* ------------------------------------------- objects made from the context
\* A cascade of finalizers is running in some thread.
CtxCascading == \E th \in Threads : cpc[th] \in { "hotplug", "cascade" }

\* The objects are used by one thread at a time, and not while close() runs
\* their finalizers.
\* USBDevice.open: the handle registers its finalizer in the device's table.
CtxDeviceOpen(o) ==
    /\ ~CtxCascading
    /\ o \in ctx_finalizer_dict
    /\ o \notin dev_finalizer_dict
    /\ dev_finalizer_dict' = dev_finalizer_dict \cup {o}
    /\ last' = CtxRet("deviceOpen", 0, "ok", "libusb_open", "handle")
    /\ UNCHANGED << context_p, auto_open, context_refcount, context_cond,
                    ctx_close, hotplug_callback_dict, ctx_finalizer_dict,
                    handle_finalizer_dict, handle_inflight, cpc, ckind >>

\* USBDeviceHandle.getTransfer: the transfer registers its finalizer in the
\* handle's table.
CtxGetTransfer(o) ==
    /\ ~CtxCascading
    /\ o \in dev_finalizer_dict
    /\ o \notin handle_finalizer_dict
    /\ handle_finalizer_dict' = handle_finalizer_dict \cup {o}
    /\ last' = CtxRet("getTransfer", 0, "ok", "libusb_alloc_transfer", "transfer")
    /\ UNCHANGED << context_p, auto_open, context_refcount, context_cond,
                    ctx_close, hotplug_callback_dict, ctx_finalizer_dict,
                    dev_finalizer_dict, handle_inflight, cpc, ckind >>

\* USBTransfer.submit accepted: the transfer joins the handle's inflight set.
CtxSubmit(o) ==
    /\ ~CtxCascading
    /\ o \in handle_finalizer_dict
    /\ o \in dev_finalizer_dict
    /\ o \notin handle_inflight
    /\ handle_inflight' = handle_inflight \cup {o}
    /\ last' = CtxRet("submit", 0, "ok", "libusb_submit_transfer", "none")
    /\ UNCHANGED << context_p, auto_open, context_refcount, context_cond,
                    ctx_close, hotplug_callback_dict, ctx_finalizer_dict,
                    dev_finalizer_dict, handle_finalizer_dict, cpc, ckind >>

\* ----------------------------------------------------------------- close
\* Variant of ctxCloseMustWait in which close() never waits.
ctxCloseMustWait_never == FALSE

\* The loop condition of close(): calls are in progress on an open context.
ctxCloseMustWait == context_refcount # 0 /\ context_p = "valid"

\* close() up to the acquire: __auto_open is cleared, without the lock.
CtxCloseBegin(th) ==
    /\ cpc[th] = "idle"
    /\ auto_open' = FALSE
    /\ cpc' = [ cpc EXCEPT ![th] = "closeAcquire" ]
    /\ last' = CtxRet("close", th, "ok", "none", "begin")
    /\ UNCHANGED << context_p, context_refcount, context_cond, ctx_close,
                    hotplug_callback_dict, ctx_finalizer_dict, dev_finalizer_dict,
                    handle_finalizer_dict, handle_inflight, ckind >>

\* close() takes the lock (at acquire(), or when wait() returns) and tests
\* the loop condition: it waits, which releases the lock, or keeps the lock
\* and calls self.__close, which runs ___close once per open() and is a
\* no-op otherwise.
CtxCloseAcquire(th) ==
    /\ cpc[th] \in { "closeAcquire", "closeWait" }
    /\ ctxLockFree(th)
    /\ IF ctxCloseMustWait
       THEN /\ cpc' = [ cpc EXCEPT ![th] = "closeWait" ]
            /\ last' = CtxRet("close", th, "ok", "none", "wait")
            /\ UNCHANGED << context_cond, ctx_close >>
       ELSE /\ context_cond' = {th}
            /\ IF ctx_close = "alive"
               THEN /\ ctx_close' = "dead"
                    /\ cpc' = [ cpc EXCEPT ![th] = "hotplug" ]
               ELSE /\ cpc' = [ cpc EXCEPT ![th] = "closeDone" ]
                    /\ UNCHANGED ctx_close
            /\ last' = CtxRet("close", th, "ok", "none", "locked")
    /\ UNCHANGED << context_p, auto_open, context_refcount,
                    hotplug_callback_dict, ctx_finalizer_dict, dev_finalizer_dict,
                    handle_finalizer_dict, handle_inflight, ckind >>

\* ___close, first loop: one registration is popped and deregistered.
CtxDeregisterHotplug(th) ==
    /\ cpc[th] = "hotplug"
    /\ \E handle \in hotplug_callback_dict :
         hotplug_callback_dict' = hotplug_callback_dict \ {handle}
    /\ last' = CtxRet("close", th, "ok", "libusb_hotplug_deregister_callback",
                      "none")
    /\ UNCHANGED << context_p, auto_open, context_refcount, context_cond,
                    ctx_close, ctx_finalizer_dict, dev_finalizer_dict,
                    handle_finalizer_dict, handle_inflight, cpc, ckind >>

\* ___close leaves its first loop when hotplug_callback_dict is empty.
CtxHotplugDone(th) ==
    /\ cpc[th] = "hotplug"
    /\ hotplug_callback_dict = {}
    /\ cpc' = [ cpc EXCEPT ![th] = "cascade" ]
    /\ last' = CtxRet("close", th, "ok", "none", "finalizers")
    /\ UNCHANGED << context_p, auto_open, context_refcount, context_cond,
                    ctx_close, hotplug_callback_dict, ctx_finalizer_dict,
                    dev_finalizer_dict, handle_finalizer_dict, handle_inflight,
                    ckind >>

\* The finalizer of device o calls the finalizer of its handle, whose close
\* loop cancels the in-flight transfer and handles events until it is gone.
CtxDrain(th, o) ==
    /\ cpc[th] = "cascade"
    /\ o \in ctx_finalizer_dict
    /\ o \in dev_finalizer_dict
    /\ o \in handle_inflight
    /\ handle_inflight' = handle_inflight \ {o}
    /\ last' = CtxRet("close", th, "ok", "libusb_handle_events", "drained")
    /\ UNCHANGED << context_p, auto_open, context_refcount, context_cond,
                    ctx_close, hotplug_callback_dict, ctx_finalizer_dict,
                    dev_finalizer_dict, handle_finalizer_dict, cpc, ckind >>

\* The close loop of the handle raises (a cancel or handleEvents error that
\* it does not swallow): __finalize pops the handle's and the device's
\* entries on the way out, ___close stops before libusb_exit, and close()
\* releases the lock in its finally clause and raises.
CtxDrainRaises(th, o) ==
    /\ cpc[th] = "cascade"
    /\ o \in ctx_finalizer_dict
    /\ o \in dev_finalizer_dict
    /\ o \in handle_inflight
    /\ dev_finalizer_dict' = dev_finalizer_dict \ {o}
    /\ ctx_finalizer_dict' = ctx_finalizer_dict \ {o}
    /\ context_cond' = {}
    /\ cpc' = [ cpc EXCEPT ![th] = "idle" ]
    /\ last' = CtxRet("close", th, "USBErrorOther", "libusb_handle_events",
                      "raise")
    /\ UNCHANGED << context_p, auto_open, context_refcount, ctx_close,
                    hotplug_callback_dict, handle_finalizer_dict,
                    handle_inflight, ckind >>

\* The handle's close runs the finalizer of its transfer, once nothing is in
\* flight: the native transfer is freed and its entry popped.
CtxFinalizeTransfer(th, o) ==
    /\ cpc[th] = "cascade"
    /\ o \in ctx_finalizer_dict
    /\ o \in dev_finalizer_dict
    /\ o \in handle_finalizer_dict
    /\ o \notin handle_inflight
    /\ handle_finalizer_dict' = handle_finalizer_dict \ {o}
    /\ last' = CtxRet("close", th, "ok", "libusb_free_transfer", "none")
    /\ UNCHANGED << context_p, auto_open, context_refcount, context_cond,
                    ctx_close, hotplug_callback_dict, ctx_finalizer_dict,
                    dev_finalizer_dict, handle_inflight, cpc, ckind >>

\* The handle's close ends: its transfer table is empty, libusb_close is
\* called and the handle's entry is popped from the device's table.
CtxFinalizeHandle(th, o) ==
    /\ cpc[th] = "cascade"
    /\ o \in ctx_finalizer_dict
    /\ o \in dev_finalizer_dict
    /\ o \notin handle_finalizer_dict
    /\ o \notin handle_inflight
    /\ dev_finalizer_dict' = dev_finalizer_dict \ {o}
    /\ last' = CtxRet("close", th, "ok", "libusb_close", "none")
    /\ UNCHANGED << context_p, auto_open, context_refcount, context_cond,
                    ctx_close, hotplug_callback_dict, ctx_finalizer_dict,
                    handle_finalizer_dict, handle_inflight, cpc, ckind >>

\* The device's close ends: its handle table is empty, the device is
\* unreferenced and its entry popped from the context's table.
CtxFinalizeDevice(th, o) ==
    /\ cpc[th] = "cascade"
    /\ o \in ctx_finalizer_dict
    /\ o \notin dev_finalizer_dict
    /\ ctx_finalizer_dict' = ctx_finalizer_dict \ {o}
    /\ last' = CtxRet("close", th, "ok", "libusb_unref_device", "none")
    /\ UNCHANGED << context_p, auto_open, context_refcount, context_cond,
                    ctx_close, hotplug_callback_dict, dev_finalizer_dict,
                    handle_finalizer_dict, handle_inflight, cpc, ckind >>

\* Variant of ctxFinalizersDone that does not wait for the finalizers.
ctxFinalizersDone_skip == TRUE

\* ___close leaves its second loop when the context's table is empty.
ctxFinalizersDone == ctx_finalizer_dict = {}

\* The end of ___close: libusb_exit, then context_p.value = None.
CtxExit(th) ==
    /\ cpc[th] = "cascade"
    /\ ctxFinalizersDone
    /\ context_p' = "null"
    /\ cpc' = [ cpc EXCEPT ![th] = "closeDone" ]
    /\ last' = CtxRet("close", th, "ok", "libusb_exit", "none")
    /\ UNCHANGED << auto_open, context_refcount, context_cond, ctx_close,
                    hotplug_callback_dict, ctx_finalizer_dict, dev_finalizer_dict,
                    handle_finalizer_dict, handle_inflight, ckind >>

\* The finally clause of close(): notify_all, release; close() returns.
CtxCloseReturn(th) ==
    /\ cpc[th] = "closeDone"
    /\ context_cond' = {}
    /\ cpc' = [ cpc EXCEPT ![th] = "idle" ]
    /\ last' = CtxRet("close", th, "ok", "none", "return")
    /\ UNCHANGED << context_p, auto_open, context_refcount, ctx_close,
                    hotplug_callback_dict, ctx_finalizer_dict, dev_finalizer_dict,
                    handle_finalizer_dict, handle_inflight, ckind >>

\* The variables the context machine leaves alone.
nonContextVars ==
    << transfer, num_iso_packets, initialized, doomed, ttype, buflen,
       submitted_dict, inflight, native, dispatching, hvars,
       auxvars >>

ContextNext ==
    \/ \E th \in Threads : CtxOpen(th) /\ UNCHANGED nonContextVars
    \/ \E th \in Threads : GuardedEnter(th) /\ UNCHANGED nonContextVars
    \/ \E th \in Threads : GuardedBody(th) /\ UNCHANGED nonContextVars
    \/ \E th \in Threads : GuardedNativeReturn(th) /\ UNCHANGED nonContextVars
    \/ \E th \in Threads : GuardedExit(th) /\ UNCHANGED nonContextVars
    \/ \E o \in CtxObjects : CtxDeviceOpen(o) /\ UNCHANGED nonContextVars
    \/ \E o \in CtxObjects : CtxGetTransfer(o) /\ UNCHANGED nonContextVars
    \/ \E o \in CtxObjects : CtxSubmit(o) /\ UNCHANGED nonContextVars
    \/ \E th \in Threads : CtxCloseBegin(th) /\ UNCHANGED nonContextVars
    \/ \E th \in Threads : CtxCloseAcquire(th) /\ UNCHANGED nonContextVars
    \/ \E th \in Threads : CtxDeregisterHotplug(th) /\ UNCHANGED nonContextVars
    \/ \E th \in Threads : CtxHotplugDone(th) /\ UNCHANGED nonContextVars
    \/ \E th \in Threads, o \in CtxObjects :
         CtxDrain(th, o) /\ UNCHANGED nonContextVars
    \/ \E th \in Threads, o \in CtxObjects :
         CtxDrainRaises(th, o) /\ UNCHANGED nonContextVars
    \/ \E th \in Threads, o \in CtxObjects :
         CtxFinalizeTransfer(th, o) /\ UNCHANGED nonContextVars
    \/ \E th \in Threads, o \in CtxObjects :
         CtxFinalizeHandle(th, o) /\ UNCHANGED nonContextVars
    \/ \E th \in Threads, o \in CtxObjects :
         CtxFinalizeDevice(th, o) /\ UNCHANGED nonContextVars
    \/ \E th \in Threads : CtxExit(th) /\ UNCHANGED nonContextVars
    \/ \E th \in Threads : CtxCloseReturn(th) /\ UNCHANGED nonContextVars

ContextSpec == Init /\ [][ContextNext]_vars

\* ======================================================================
\* USBPoller.poll: the timeout given to the external poller
\* ======================================================================
\* Times are counted in microseconds, the resolution of the driver's timeval.
\* An optional time is a sequence: empty for Python's None, else of the one
\* value.
None == << >>

Some(x) == << x >>

\* The timeout argument of poll(): None, a negative value, zero, or more.
PollTimeouts == { None } \cup { Some(x) : x \in -1 .. MaxPollTimeout }

\* What libusb_get_next_timeout can return: 0 (no timeout pending), 1 (the
\* timeval is filled in), or an error code.
NextTimeoutResults == { 0, 1, ERROR_OTHER }

\* What the external poller can return: a list of events, of which usb are on
\* descriptors of the driver (in __fd_set) and other on other descriptors.
PollerEvents == [ usb : 0 .. MaxEvents, other : 0 .. MaxEvents ]

\* The tail of poll(): the events on the driver's descriptors are filtered
\* out of the result, and handleEventsTimeout() is called when the result is
\* shorter than the event list, or when the event list is empty.
pollHandlesEvents(event_list) ==
    LET len_event_list == event_list.usb + event_list.other
        len_result == event_list.other
    IN  IF len_event_list # 0 THEN len_result # len_event_list ELSE TRUE

\* getNextTimeout, for the results that do not raise.
getNextTimeout(result, tv_sec, tv_usec) ==
    IF result = 0 THEN None ELSE Some(tv_sec * UsecPerSec + tv_usec)

\* Python's truth value of an optional time: None and zero are false.
truthy(x) == x # None /\ x[1] # 0

\* Python's min of two numbers.
min(a, b) == IF a < b THEN a ELSE b

\* The if/elif/else of poll() that chooses usb_timeout.
usbTimeout(timeout, next_usb_timeout) ==
    IF timeout = None \/ timeout[1] < 0 THEN next_usb_timeout
    ELSE IF truthy(next_usb_timeout)
    THEN Some(min(next_usb_timeout[1], timeout[1]))
    ELSE timeout

\* poll(timeout) on an open context: getNextTimeout (which raises on a driver
\* error, before the external poller is called), the choice of usb_timeout,
\* the external poller's poll, then the filtering of its events and
\* handleEventsTimeout (see pollHandlesEvents).
Poll ==
    \E timeout \in PollTimeouts, result \in NextTimeoutResults,
       tv_sec \in 0 .. MaxTvSec, tv_usec \in 0 .. MaxTvUsec,
       events \in PollerEvents :
        /\ result # 1 => tv_sec = 0 /\ tv_usec = 0
        /\ IF result \notin { 0, 1 }
           THEN /\ events = [ usb |-> 0, other |-> 0 ]
                /\ last' = [ op |-> "poll", exc |-> raiseUSBError(result),
                             native |-> "libusb_get_next_timeout",
                             timeout |-> timeout, result |-> result,
                             next_usb_timeout |-> None,
                             usb_timeout |-> None, events |-> events,
                             returned |-> 0, handled |-> FALSE ]
           ELSE LET next_usb_timeout == getNextTimeout(result, tv_sec, tv_usec)
                IN  last' = [ op |-> "poll", exc |-> "ok",
                              native |-> "poller.poll",
                              timeout |-> timeout, result |-> result,
                              next_usb_timeout |-> next_usb_timeout,
                              usb_timeout |->
                                  usbTimeout(timeout, next_usb_timeout),
                              events |-> events,
                              returned |-> events.other,
                              handled |-> pollHandlesEvents(events) ]

\* Every variable but the record of the last operation.
stateVars ==
    << transfer, num_iso_packets, initialized, doomed, ttype, buflen,
       submitted_dict, inflight, native, dispatching, hvars, cvars,
       auxvars >>

PollNext == Poll /\ UNCHANGED stateVars

PollSpec == Init /\ [][PollNext]_vars

\* ======================================================================
\* USBPoller: the driver's descriptors and the external poller
\* ======================================================================
\* One context, open, whose driver adds and removes poll descriptors; one
\* USBPoller at a time over an external poller.  An exception raised by
\* _registerFD or _unregisterFD when the driver calls them is lost: the
\* driver's notifier has no way to report it.

\* The record of a step on the poller.
PollerRet(op, fd, exc) ==
    [ op |-> op, fd |-> fd, exc |-> exc, native |-> "none" ]

\* USBPoller(context, poller) with a poller that has nothing registered:
\* setPollFDNotifiers installs _registerFD and _unregisterFD in the driver,
\* then every descriptor of getPollFDList is given to _registerFD.
\* After libusb_set_pollfd_notifiers, the first setPollFDNotifiers on a
\* context sets __has_pollfd_finalizer and calls self.getFinalizer, which
\* USBContext does not have (its method is _getFinalizer): AttributeError.
PollerConstruct ==
    /\ ppc = "none"
    /\ notifiers' = "poller"
    /\ has_pollfd_finalizer' = TRUE
    /\ IF ~has_pollfd_finalizer
       THEN /\ ppc' = "raised"
            /\ fd_set' = {}
            /\ poller_fds' = {}
            /\ last' = PollerRet("USBPoller", 0, "AttributeError")
       ELSE /\ ppc' = "constructed"
            /\ fd_set' = driver_fds
            /\ poller_fds' = driver_fds
            /\ last' = PollerRet("USBPoller", 0, "ok")
    /\ UNCHANGED driver_fds

\* USBPoller.__del__, of a poller whose __init__ raised or of one that is
\* dropped: setPollFDNotifiers(None, None).
PollerDel ==
    /\ ppc \in { "raised", "constructed" }
    /\ notifiers' = "null"
    /\ ppc' = "none"
    /\ last' = PollerRet("__del__", 0, "ok")
    /\ UNCHANGED << driver_fds, fd_set, poller_fds, has_pollfd_finalizer >>

\* The driver opens a descriptor and calls its added notifier, _registerFD:
\* register(fd, events), which raises when fd is in __fd_set, then
\* __fd_set.add(fd).
DriverAddFd(fd) ==
    /\ fd \notin driver_fds
    /\ driver_fds' = driver_fds \cup {fd}
    /\ IF notifiers = "poller" /\ fd \notin fd_set
       THEN /\ poller_fds' = poller_fds \cup {fd}
            /\ fd_set' = fd_set \cup {fd}
       ELSE UNCHANGED << poller_fds, fd_set >>
    /\ last' = PollerRet("_registerFD", fd, "ok")
    /\ UNCHANGED << notifiers, has_pollfd_finalizer, ppc >>

\* The driver closes a descriptor and calls its removed notifier,
\* _unregisterFD: __fd_set.discard(fd), then unregister(fd).
DriverRemoveFd(fd) ==
    /\ fd \in driver_fds
    /\ driver_fds' = driver_fds \ {fd}
    /\ IF notifiers = "poller"
       THEN /\ fd_set' = fd_set \ {fd}
            /\ poller_fds' = poller_fds \ {fd}
       ELSE UNCHANGED << poller_fds, fd_set >>
    /\ last' = PollerRet("_unregisterFD", fd, "ok")
    /\ UNCHANGED << notifiers, has_pollfd_finalizer, ppc >>

\* register(fd, events), called by the user.
PollerRegister(fd) ==
    /\ ppc = "constructed"
    /\ IF fd \in fd_set
       THEN /\ last' = PollerRet("register", fd, "ValueError")
            /\ UNCHANGED poller_fds
       ELSE /\ poller_fds' = poller_fds \cup {fd}
            /\ last' = PollerRet("register", fd, "ok")
    /\ UNCHANGED << driver_fds, fd_set, notifiers, has_pollfd_finalizer, ppc >>

\* unregister(fd), called by the user; the external poller raises KeyError
\* for a descriptor it does not have.
PollerUnregister(fd) ==
    /\ ppc = "constructed"
    /\ IF fd \in fd_set
       THEN /\ last' = PollerRet("unregister", fd, "ValueError")
            /\ UNCHANGED poller_fds
       ELSE /\ poller_fds' = poller_fds \ {fd}
            /\ last' = PollerRet("unregister", fd,
                                 IF fd \in poller_fds THEN "ok" ELSE "KeyError")
    /\ UNCHANGED << driver_fds, fd_set, notifiers, has_pollfd_finalizer, ppc >>

\* The variables the poller leaves alone.
nonPollerVars ==
    << transfer, num_iso_packets, initialized, doomed, ttype, buflen,
       submitted_dict, inflight, native, dispatching, hvars, cvars,
       hotplug_live, hotplug_true, hotplug_enum, xfer, helper, tpc >>

PollerNext ==
    \/ PollerConstruct /\ UNCHANGED nonPollerVars
    \/ PollerDel /\ UNCHANGED nonPollerVars
    \/ \E fd \in Fds : DriverAddFd(fd) /\ UNCHANGED nonPollerVars
    \/ \E fd \in Fds : DriverRemoveFd(fd) /\ UNCHANGED nonPollerVars
    \/ \E fd \in Fds : PollerRegister(fd) /\ UNCHANGED nonPollerVars
    \/ \E fd \in Fds : PollerUnregister(fd) /\ UNCHANGED nonPollerVars

PollerSpec == Init /\ [][PollerNext]_vars

\* ======================================================================
\* Hotplug registrations
\* ======================================================================
\* One thread (thread 1) opens the context, registers and deregisters hotplug
\* callbacks, handles events and closes the context.  The driver delivers a
\* device to the trampoline wrapped_callback of a live registration: once per
\* device present while hotplugRegisterCallback is in the native registration
\* call (HOTPLUG_ENUMERATE), and when a device arrives or leaves afterwards.

\* What the driver gets back from a trampoline that raised: the exception is
\* lost at the native boundary and the integer result is whatever the
\* callback machinery left there.
RaisedCallbackResults == { 0, 1 }

\* The record of a step on the hotplug registrations.
HotplugRet(op, handle, exc, nat, again) ==
    [ op |-> op, handle |-> handle, exc |-> exc, native |-> nat,
      again |-> again ]

\* The thread is not inside a call on the context.
hotplugIdle == cpc[1] = "idle" /\ hotplug_enum = << >>

\* hotplugRegisterCallback up to the native call, on an open context: the
\* driver refuses, or makes the registration with a handle it does not use
\* and starts to enumerate the devices present.  The handle is not known to
\* the caller before the native call returns.
HotplugRegisterBegin ==
    /\ hotplugIdle
    /\ context_p = "valid"
    /\ \E result \in { SUCCESS, ERROR_NOT_SUPPORTED } :
         IF mayRaiseUSBError(result) # "ok"
         THEN /\ last' = HotplugRet("hotplugRegisterCallback", 0,
                                    mayRaiseUSBError(result),
                                    "libusb_hotplug_register_callback", FALSE)
              /\ UNCHANGED << hotplug_live, hotplug_true, hotplug_enum >>
         ELSE \E handle \in HotplugHandles \ (hotplug_live \cup hotplug_callback_dict),
                 devices \in 0 .. MaxEnumDevices :
                /\ hotplug_live' = hotplug_live \cup {handle}
                /\ hotplug_true' = hotplug_true \ {handle}
                /\ hotplug_enum' = << handle, devices >>
                /\ last' = HotplugRet("hotplugRegisterCallback", handle, "ok",
                                      "libusb_hotplug_register_callback", FALSE)
    /\ UNCHANGED cvars

\* wrapped_callback during the enumeration: the user callback is called; when
\* it returns a true value, `del self.__hotplug_callback_dict[handle]` is
\* run with handle still the c_int() made before the native call, which is
\* not hashable: TypeError.  The driver goes on with the next device, or
\* drops the registration when it is given a non-zero result and heeds it.
HotplugEnumCallback ==
    /\ hotplug_enum # << >>
    /\ hotplug_enum[2] > 0
    /\ LET handle == hotplug_enum[1]
       IN  \E unregister \in BOOLEAN :
             IF ~unregister
             THEN /\ hotplug_enum' = << handle, hotplug_enum[2] - 1 >>
                  /\ last' = HotplugRet("wrapped_callback", handle, "ok",
                                        "none", handle \in hotplug_true)
                  /\ UNCHANGED << hotplug_live, hotplug_true >>
             ELSE \E result \in RaisedCallbackResults, heeded \in BOOLEAN :
                    /\ hotplug_true' = hotplug_true \cup {handle}
                    /\ IF result # 0 /\ heeded
                       THEN /\ hotplug_live' = hotplug_live \ {handle}
                            /\ hotplug_enum' = << handle, 0 >>
                       ELSE /\ hotplug_enum' = << handle, hotplug_enum[2] - 1 >>
                            /\ UNCHANGED hotplug_live
                    /\ last' = HotplugRet("wrapped_callback", handle, "TypeError",
                                          "none", handle \in hotplug_true)
    /\ UNCHANGED cvars

\* Variant of hotplugStored that keeps no reference.
hotplugStored_dropped(dict, handle) == dict

\* `self.__hotplug_callback_dict[handle] = (callback_p, wrapped_callback)`.
hotplugStored(dict, handle) == dict \cup {handle}

\* hotplugRegisterCallback after the native call: the handle is read and the
\* trampoline is stored under it.
HotplugRegisterEnd ==
    /\ hotplug_enum # << >>
    /\ hotplug_enum[2] = 0
    /\ hotplug_callback_dict' =
           hotplugStored(hotplug_callback_dict, hotplug_enum[1])
    /\ hotplug_enum' = << >>
    /\ last' = HotplugRet("hotplugRegisterCallback", hotplug_enum[1], "ok",
                          "none", FALSE)
    /\ UNCHANGED << hotplug_live, hotplug_true >>
    /\ UNCHANGED << context_p, auto_open, context_refcount, context_cond,
                    ctx_close, ctx_finalizer_dict, dev_finalizer_dict,
                    handle_finalizer_dict, handle_inflight, cpc, ckind >>

\* wrapped_callback for a device that arrives or leaves while events are
\* handled: the user callback is called; when it returns a true value the
\* trampoline deletes its entry and returns true, and the driver drops the
\* registration.
HotplugEventCallback(handle) ==
    /\ hotplugIdle
    /\ context_p = "valid"
    /\ handle \in hotplug_live
    /\ \E unregister \in BOOLEAN :
         IF ~unregister
         THEN /\ last' = HotplugRet("wrapped_callback", handle, "ok", "none",
                                    handle \in hotplug_true)
              /\ UNCHANGED << hotplug_live, hotplug_true, hotplug_callback_dict >>
         ELSE IF handle \in hotplug_callback_dict
         THEN /\ hotplug_callback_dict' = hotplug_callback_dict \ {handle}
              /\ hotplug_live' = hotplug_live \ {handle}
              /\ hotplug_true' = hotplug_true \cup {handle}
              /\ last' = HotplugRet("wrapped_callback", handle, "ok", "none",
                                    handle \in hotplug_true)
         ELSE \E result \in RaisedCallbackResults :
                /\ hotplug_live' = IF result # 0 THEN hotplug_live \ {handle}
                                   ELSE hotplug_live
                /\ hotplug_true' = hotplug_true \cup {handle}
                /\ last' = HotplugRet("wrapped_callback", handle, "KeyError",
                                      "none", handle \in hotplug_true)
                /\ UNCHANGED hotplug_callback_dict
    /\ UNCHANGED hotplug_enum
    /\ UNCHANGED << context_p, auto_open, context_refcount, context_cond,
                    ctx_close, ctx_finalizer_dict, dev_finalizer_dict,
                    handle_finalizer_dict, handle_inflight, cpc, ckind >>

\* hotplugDeregisterCallback(handle): on a closed context the guard skips
\* the method; else `del self.__hotplug_callback_dict[handle]`, which raises
\* KeyError for a handle that is no key, then the native deregistration.
HotplugDeregister(handle) ==
    /\ hotplugIdle
    /\ IF context_p # "valid"
       THEN /\ last' = HotplugRet("hotplugDeregisterCallback", handle, "ok",
                                  "none", FALSE)
            /\ UNCHANGED << hotplug_live, hotplug_callback_dict >>
       ELSE IF handle \notin hotplug_callback_dict
       THEN /\ last' = HotplugRet("hotplugDeregisterCallback", handle,
                                  "KeyError", "none", FALSE)
            /\ UNCHANGED << hotplug_live, hotplug_callback_dict >>
       ELSE /\ hotplug_callback_dict' = hotplug_callback_dict \ {handle}
            /\ hotplug_live' = hotplug_live \ {handle}
            /\ last' = HotplugRet("hotplugDeregisterCallback", handle, "ok",
                                  "libusb_hotplug_deregister_callback", FALSE)
    /\ UNCHANGED << hotplug_true, hotplug_enum >>
    /\ UNCHANGED << context_p, auto_open, context_refcount, context_cond,
                    ctx_close, ctx_finalizer_dict, dev_finalizer_dict,
                    handle_finalizer_dict, handle_inflight, cpc, ckind >>

\* open() and the steps of close(), by thread 1, with what they do to the
\* driver's registrations: a deregistration at the driver for each entry
\* popped, and the end of every registration when the driver's context is
\* destroyed.
HotplugContextStep ==
    /\ hotplug_enum = << >>
    /\ \/ CtxOpen(1)
       \/ CtxCloseBegin(1)
       \/ CtxCloseAcquire(1)
       \/ CtxDeregisterHotplug(1)
       \/ CtxHotplugDone(1)
       \/ CtxExit(1)
       \/ CtxCloseReturn(1)
    /\ hotplug_live' =
         IF last'.native = "libusb_exit" THEN {}
         ELSE hotplug_live \ (hotplug_callback_dict \ hotplug_callback_dict')
    /\ UNCHANGED << hotplug_true, hotplug_enum >>

\* The variables the hotplug registrations leave alone.
nonHotplugVars ==
    << transfer, num_iso_packets, initialized, doomed, ttype, buflen,
       submitted_dict, inflight, native, dispatching, hvars, driver_fds,
       fd_set, poller_fds, notifiers, has_pollfd_finalizer, ppc, xfer, helper,
       tpc >>

HotplugNext ==
    \/ HotplugRegisterBegin /\ UNCHANGED nonHotplugVars
    \/ HotplugEnumCallback /\ UNCHANGED nonHotplugVars
    \/ HotplugRegisterEnd /\ UNCHANGED nonHotplugVars
    \/ \E handle \in HotplugHandles :
         HotplugEventCallback(handle) /\ UNCHANGED nonHotplugVars
    \/ \E handle \in HotplugHandles :
         HotplugDeregister(handle) /\ UNCHANGED nonHotplugVars
    \/ HotplugContextStep /\ UNCHANGED nonHotplugVars

HotplugSpec == Init /\ [][HotplugNext]_vars

\* ======================================================================
\* USBTransfer: the buffer, the control setup and the isochronous packets
\* ======================================================================
\* One transfer that is never submitted: getTransfer, the set* methods,
\* setBuffer, doom and the accessors.  A byte string is a sequence of bytes.
\* xfer holds the Python attributes (iso_packets for __num_iso_packets,
\* doomed, initialized, py for where __transfer_py_buffer starts in the
\* buffer), the native descriptor (type, buffer, length, num_iso_packets
\* and desc, the array of isochronous packet descriptors) and calls, the
\* number of configuring calls made so far.

\* The buffer_or_len arguments: an int (a size) or a byte string, every one
\* of at most MaxDataLen bytes.
BufferArgs ==
    { [ is_int |-> TRUE, size |-> n, data |-> << >> ] : n \in 0 .. MaxDataLen }
      \cup
    { [ is_int |-> FALSE, size |-> Len(d), data |-> d ] :
        d \in UNION { [ 1 .. n -> 0 .. MaxByte ] : n \in 0 .. MaxDataLen } }

\* create_binary_buffer: a size gives that many zero bytes, a byte string
\* gives a writable buffer with the same bytes.
create_binary_buffer(init_or_size) ==
    IF init_or_size.is_int THEN [ i \in 1 .. init_or_size.size |-> 0 ]
    ELSE init_or_size.data

\* The record of a call on the transfer.
BufRet(op, exc, arg, result) ==
    [ op |-> op, exc |-> exc, native |-> "none", arg |-> arg,
      result |-> result ]

\* bswap16, as written: the high part of the argument is not masked.  The
\* two parts share no bit for the arguments met here (at most 2^16), so that
\* | adds them.
bswap16(x) == ((x % 256) * 256) + (x \div 256)

libusb_cpu_to_le16(x, little_endian) == IF little_endian THEN x ELSE bswap16(x)

libusb_le16_to_cpu(x, little_endian) == IF little_endian THEN x ELSE bswap16(x)

\* libusb_fill_control_setup: the eight bytes written at the head of the
\* buffer.  A c_uint8 or c_uint16 field keeps the low bits of what is stored
\* in it, and its bytes lie in memory in the byte order of the host.
libusb_fill_control_setup(bmRequestType, bRequest, wValue, wIndex, wLength, little_endian) ==
    LET field16(x) ==
            LET v == libusb_cpu_to_le16(x, little_endian) % WLengthModulus
            IN  IF little_endian THEN << v % 256, v \div 256 >>
                ELSE << v \div 256, v % 256 >>
    IN  << bmRequestType % 256, bRequest % 256 >>
          \o field16(wValue) \o field16(wIndex) \o field16(wLength)

\* The transfer after one more configuring call.
called == [ xfer EXCEPT !.calls = @ + 1 ]

\* getTransfer(iso_packets): the native transfer is allocated zeroed, with
\* room for iso_packets packet descriptors.
BufGetTransfer ==
    /\ xfer = << >>
    /\ \E iso_packets \in 0 .. BufIsoSlots :
         /\ xfer' = [ calls |-> 0,
                      iso_packets |-> iso_packets, doomed |-> FALSE,
                      initialized |-> FALSE, py |-> None,
                      type |-> TRANSFER_TYPE_CONTROL, buffer |-> << >>,
                      length |-> 0, num_iso_packets |-> 0,
                      desc |-> [ i \in 1 .. iso_packets |->
                                   [ length |-> 0, actual_length |-> 0,
                                     status |-> TRANSFER_COMPLETED ] ] ]
         /\ last' = BufRet("getTransfer", "ok", iso_packets, << >>)

\* doom()
BufDoom ==
    /\ xfer # << >>
    /\ ~xfer.doomed
    /\ xfer.calls < MaxCalls
    /\ xfer' = [ called EXCEPT !.doomed = TRUE ]
    /\ last' = BufRet("doom", "ok", None, << >>)

\* setControl on a transfer that is not submitted, with two sets of request
\* type, request, value and index, and with the payloads of BufferArgs and
\* one of 2^16 bytes, one more than a 16-bit length counts; the host has one
\* byte order or the other.
BufSetControl ==
    /\ xfer # << >>
    /\ xfer.calls < MaxCalls
    /\ \E setup_args \in { << ENDPOINT_OUT, 5, 0, 0 >>,
                           << ENDPOINT_IN, 1, 258, 1 >> },
          buffer_or_len \in BufferArgs \cup
              { [ is_int |-> FALSE, size |-> WLengthModulus,
                  data |-> [ i \in 1 .. WLengthModulus |-> 0 ] ] },
          little_endian \in BOOLEAN :
         IF xfer.doomed
         THEN /\ last' = BufRet("setControl", "DoomedTransferError",
                                buffer_or_len, << >>)
              /\ xfer' = called
         ELSE LET length == buffer_or_len.size
                  string_buffer ==
                      IF buffer_or_len.is_int
                      THEN create_binary_buffer(
                               [ is_int |-> TRUE,
                                 size |-> length + CONTROL_SETUP_SIZE,
                                 data |-> << >> ])
                      ELSE [ i \in 1 .. CONTROL_SETUP_SIZE |-> 0 ]
                             \o create_binary_buffer(buffer_or_len)
                  setup == libusb_fill_control_setup(
                               setup_args[1], setup_args[2], setup_args[3],
                               setup_args[4], length, little_endian)
                  wLength == libusb_cpu_to_le16(length, little_endian)
                               % WLengthModulus
              IN  /\ xfer' = [ called EXCEPT
                        !.initialized = TRUE,
                        !.py = Some(CONTROL_SETUP_SIZE),
                        !.type = TRANSFER_TYPE_CONTROL,
                        !.buffer = setup \o SubSeq(string_buffer,
                                                   CONTROL_SETUP_SIZE + 1,
                                                   Len(string_buffer)),
                        !.length = CONTROL_SETUP_SIZE
                            + libusb_le16_to_cpu(wLength, little_endian) ]
                  /\ last' = BufRet("setControl", "ok", buffer_or_len,
                                    setup_args)

\* setBulk and setInterrupt on a transfer that is not submitted: the same
\* code but for the native fill function, which sets the type.
BufSetBulkOrInterrupt ==
    /\ xfer # << >>
    /\ xfer.calls < MaxCalls
    /\ \E type \in { TRANSFER_TYPE_BULK, TRANSFER_TYPE_INTERRUPT },
          buffer_or_len \in BufferArgs :
         LET op == IF type = TRANSFER_TYPE_BULK THEN "setBulk"
                   ELSE "setInterrupt"
         IN  IF xfer.doomed
             THEN /\ last' = BufRet(op, "DoomedTransferError", buffer_or_len,
                                    << >>)
                  /\ xfer' = called
             ELSE LET string_buffer == create_binary_buffer(buffer_or_len)
                  IN  /\ xfer' = [ called EXCEPT
                            !.initialized = TRUE,
                            !.py = Some(0),
                            !.type = type,
                            !.buffer = string_buffer,
                            !.length = Len(string_buffer) ]
                      /\ last' = BufRet(op, "ok", buffer_or_len, << >>)

\* Variant of setBufferRefused that lets the buffer of a control transfer be
\* replaced.
setBufferRefused_isoOnly(type, length, buff) ==
    type = TRANSFER_TYPE_ISOCHRONOUS /\ Len(buff) # length

\* The two refusals of setBuffer: a control transfer, and an isochronous
\* transfer given a buffer of another size.
setBufferRefused(type, length, buff) ==
    \/ type = TRANSFER_TYPE_CONTROL
    \/ type = TRANSFER_TYPE_ISOCHRONOUS /\ Len(buff) # length

\* setBuffer on a transfer that is not submitted.
BufSetBuffer ==
    /\ xfer # << >>
    /\ xfer.calls < MaxCalls
    /\ \E buffer_or_len \in BufferArgs :
         LET buff == create_binary_buffer(buffer_or_len)
         IN  IF setBufferRefused(xfer.type, xfer.length, buff)
             THEN /\ last' = BufRet("setBuffer", "ValueError", buffer_or_len,
                                    << >>)
                  /\ xfer' = called
             ELSE /\ xfer' = [ called EXCEPT !.py = Some(0), !.buffer = buff,
                                           !.length = Len(buff) ]
                  /\ last' = BufRet("setBuffer", "ok", buffer_or_len, << >>)

\* getBuffer: __transfer_py_buffer, the buffer from where the data starts,
\* or None before any buffer was set.
getBuffer ==
    IF xfer.py = None THEN None
    ELSE Some(SubSeq(xfer.buffer, xfer.py[1] + 1, Len(xfer.buffer)))

\* The per-packet lengths given to setIsochronous: None when omitted, every
\* list that fits the slots, and one with a length too many.
IsoLengthArgs ==
    { None, Some([ i \in 1 .. BufIsoSlots + 1 |-> 1 ]) } \cup
    { Some(l) : l \in UNION { [ 1 .. n -> 0 .. MaxDataLen ]
                              : n \in 0 .. BufIsoSlots } }

\* The configured lengths, one per configured packet.
isoLengths == [ i \in 1 .. xfer.num_iso_packets |-> xfer.desc[i].length ]

\* Variant of isoTooLong that accepts every total.
isoTooLong_never(total, buffer_length) == FALSE

\* "if sum(iso_transfer_length_list) > buffer_length:" of setIsochronous
isoTooLong(total, buffer_length) == total > buffer_length

\* The length list in use past the checks of setIsochronous: the one given,
\* or the buffer shared evenly among the allocated slots.
isoLengthList(buffer_length, iso_transfer_length_list) ==
    IF iso_transfer_length_list = None
    THEN [ i \in 1 .. xfer.iso_packets |-> buffer_length \div xfer.iso_packets ]
    ELSE iso_transfer_length_list[1]

\* The first failing check of setIsochronous on a transfer that is not
\* submitted, or "ok".
isoRefusal(buffer_length, iso_transfer_length_list) ==
    IF xfer.iso_packets = 0 THEN "TypeError"
    ELSE IF xfer.doomed THEN "DoomedTransferError"
    ELSE IF /\ iso_transfer_length_list = None
            /\ buffer_length % xfer.iso_packets # 0
         THEN "ValueError"
    ELSE IF Len(isoLengthList(buffer_length, iso_transfer_length_list))
              > xfer.iso_packets
         THEN "ValueError"
    ELSE IF isoTooLong(
                SumSeq(isoLengthList(buffer_length, iso_transfer_length_list)),
                buffer_length)
         THEN "ValueError"
    ELSE "ok"

\* The loop that stores the lengths stops at the first length that is not
\* positive: its index, or one past the list.
isoFirstBad(list) ==
    IF \E i \in 1 .. Len(list) : list[i] <= 0
    THEN CHOOSE i \in 1 .. Len(list) :
            /\ list[i] <= 0
            /\ \A j \in 1 .. (i - 1) : list[j] > 0
    ELSE Len(list) + 1

\* setIsochronous on a transfer that is not submitted.  The native
\* descriptor is filled before the lengths are stored, so that a length that
\* is not positive raises with the descriptors before it already written.
BufSetIsochronous ==
    /\ xfer # << >>
    /\ xfer.calls < MaxCalls
    /\ \E buffer_or_len \in BufferArgs,
          iso_transfer_length_list \in IsoLengthArgs :
         LET string_buffer == create_binary_buffer(buffer_or_len)
             buffer_length == Len(string_buffer)
             refusal == isoRefusal(buffer_length, iso_transfer_length_list)
             list == isoLengthList(buffer_length, iso_transfer_length_list)
         IN  IF refusal # "ok"
             THEN /\ last' = BufRet("setIsochronous", refusal, buffer_or_len,
                                    iso_transfer_length_list)
                  /\ xfer' = called
             ELSE /\ xfer' = [ called EXCEPT
                        !.initialized = isoFirstBad(list) > Len(list),
                        !.py = Some(0),
                        !.type = TRANSFER_TYPE_ISOCHRONOUS,
                        !.buffer = string_buffer,
                        !.length = buffer_length,
                        !.num_iso_packets = Len(list),
                        !.desc = [ i \in 1 .. Len(xfer.desc) |->
                            IF i < isoFirstBad(list) /\ i <= Len(list)
                            THEN [ xfer.desc[i] EXCEPT !.length = list[i] ]
                            ELSE xfer.desc[i] ] ]
                  /\ last' = BufRet("setIsochronous",
                                    IF isoFirstBad(list) > Len(list) THEN "ok"
                                    ELSE "ValueError",
                                    buffer_or_len, iso_transfer_length_list)

\* The native library reports packets as wholly received: actual_length
\* becomes length for the packets in done.
BufReceive ==
    /\ xfer # << >>
    /\ xfer.type = TRANSFER_TYPE_ISOCHRONOUS
    /\ \E done \in SUBSET (1 .. xfer.num_iso_packets) :
         /\ done # {}
         /\ xfer' = [ xfer EXCEPT !.desc =
                [ i \in 1 .. Len(xfer.desc) |->
                    IF i \in done
                    THEN [ xfer.desc[i] EXCEPT
                             !.actual_length = xfer.desc[i].length ]
                    ELSE xfer.desc[i] ] ]
         /\ last' = BufRet("receive", "ok", None, << >>)

\* buffer_at(transfer.buffer + offset, length), memory being what lies from
\* the start of the buffer on.
buffer_at(memory, offset, length) == SubSeq(memory, offset + 1, offset + length)

\* How far past the end of the buffer a reader of the packets can go.
isoOverrun ==
    LET reach == SumSeq([ i \in 1 .. xfer.num_iso_packets |->
                    IF xfer.desc[i].length > xfer.desc[i].actual_length
                    THEN xfer.desc[i].length ELSE xfer.desc[i].actual_length ])
    IN  IF reach > Len(xfer.buffer) THEN reach - Len(xfer.buffer) ELSE 0

\* get_iso_packet_buffer_list: one slice per configured packet, each
\* starting where the one before it ends.
get_iso_packet_buffer_list(memory) ==
    [ i \in 1 .. xfer.num_iso_packets |->
        buffer_at(memory, SumSeq(SubSeq(isoLengths, 1, i - 1)),
                  xfer.desc[i].length) ]

\* getISOBufferList; past the end of the buffer it reads whatever follows
\* the buffer in memory.
BufGetISOBufferList ==
    /\ xfer # << >>
    /\ UNCHANGED xfer
    /\ IF xfer.type # TRANSFER_TYPE_ISOCHRONOUS
       THEN last' = BufRet("getISOBufferList", "TypeError", None, << >>)
       ELSE \E beyond \in [ 1 .. isoOverrun -> 0 .. MaxByte ] :
              last' = BufRet("getISOBufferList", "ok", None,
                             get_iso_packet_buffer_list(xfer.buffer \o beyond))

\* Variant of isoAdvance that moves by what was received.
isoAdvance_actual(iso_transfer) == iso_transfer.actual_length

\* "buffer_position += iso_transfer.length" of iterISO
isoAdvance(iso_transfer) == iso_transfer.length

\* iterISO, run to its end: (status, buffer) per configured packet.
iterISO(memory) ==
    [ i \in 1 .. xfer.num_iso_packets |->
        [ status |-> xfer.desc[i].status,
          buffer |-> buffer_at(
              memory,
              SumSeq([ j \in 1 .. (i - 1) |-> isoAdvance(xfer.desc[j]) ]),
              xfer.desc[i].actual_length) ] ]

BufIterISO ==
    /\ xfer # << >>
    /\ UNCHANGED xfer
    /\ IF xfer.type # TRANSFER_TYPE_ISOCHRONOUS
       THEN last' = BufRet("iterISO", "TypeError", None, << >>)
       ELSE \E beyond \in [ 1 .. isoOverrun -> 0 .. MaxByte ] :
              last' = BufRet("iterISO", "ok", None,
                             iterISO(xfer.buffer \o beyond))

\* Everything but the transfer's buffer.
nonBufferVars ==
    << transfer, num_iso_packets, initialized, doomed, ttype, buflen,
       submitted_dict, inflight, native, dispatching, hvars, cvars,
       driver_fds, fd_set, poller_fds, notifiers, has_pollfd_finalizer, ppc,
       hotplug_live, hotplug_true, hotplug_enum, helper, tpc >>

BufferNext ==
    \/ BufGetTransfer /\ UNCHANGED nonBufferVars
    \/ BufDoom /\ UNCHANGED nonBufferVars
    \/ BufSetControl /\ UNCHANGED nonBufferVars
    \/ BufSetBulkOrInterrupt /\ UNCHANGED nonBufferVars
    \/ BufSetIsochronous /\ UNCHANGED nonBufferVars
    \/ BufSetBuffer /\ UNCHANGED nonBufferVars
    \/ BufReceive /\ UNCHANGED nonBufferVars
    \/ BufGetISOBufferList /\ UNCHANGED nonBufferVars
    \/ BufIterISO /\ UNCHANGED nonBufferVars

BufferSpec == Init /\ [][BufferNext]_vars

\* ======================================================================
\* The context above the handle: release of the three native resources
\* ======================================================================
\* The handle and its transfers live in a context that thread 1 opens and
\* closes.  USBContext.close() runs the context's finalizer, which runs the
\* finalizers below it (the device's, which runs the handle's close()) and
\* then calls libusb_exit.

\* context.close() called at top level, up to its first blocking point.  A
\* dead finalizer (or the placeholder) does nothing.  A live one is spent and
\* runs ___close: a handle that is still open is closed first, and when
\* nothing is left to finalize libusb_exit is called.
LifeCloseBegin ==
    /\ cpc[1] = "idle"
    /\ dispatching = {}
    /\ ~FinalizerDraining
    /\ hpc \in { "open", "released", "closed", "failed" }
    /\ auto_open' = FALSE
    /\ IF ctx_close # "alive"
       THEN /\ last' = CtxRet("close", 1, "ok", "none", "return")
            /\ UNCHANGED << context_p, ctx_close, cpc, hpc, cancelled_set, due,
                            closeStart, ndispatch, nsubmit, native >>
       ELSE /\ ctx_close' = "dead"
            /\ IF hpc = "open"
               THEN /\ cpc' = [ cpc EXCEPT ![1] = "cascade" ]
                    /\ closeStart' = inflight
                    /\ ndispatch' = 0
                    /\ nsubmit' = 0
                    /\ HandleCloseLoop({}, SUCCESS)
                    /\ UNCHANGED context_p
               ELSE /\ context_p' = "null"
                    /\ last' = CtxRet("close", 1, "ok", "libusb_exit", "return")
                    /\ UNCHANGED << cpc, hpc, cancelled_set, due, closeStart,
                                    ndispatch, nsubmit, native >>
    /\ UNCHANGED << transfer, num_iso_packets, initialized, doomed, ttype, buflen,
                    submitted_dict, inflight, dispatching, fin,
                    context_refcount, context_cond, hotplug_callback_dict,
                    ctx_finalizer_dict, dev_finalizer_dict,
                    handle_finalizer_dict, handle_inflight, ckind, auxvars >>

\* The handle's close() called by ___close has ended: it returned, and
\* libusb_exit is called and context_p nulled; or it raised, and
\* context.close() is left by the exception before libusb_exit.
LifeCloseEnd ==
    /\ cpc[1] = "cascade"
    /\ dispatching = {}
    /\ hpc \in { "released", "failed" }
    /\ cpc' = [ cpc EXCEPT ![1] = "idle" ]
    /\ IF hpc = "released"
       THEN /\ context_p' = "null"
            /\ last' = CtxRet("close", 1, "ok", "libusb_exit", "return")
       ELSE /\ last' = CtxRet("close", 1, last.exc, "none", "raise")
            /\ UNCHANGED context_p
    /\ UNCHANGED << transfer, num_iso_packets, initialized, doomed, ttype, buflen,
                    submitted_dict, inflight, native, dispatching, hvars,
                    auto_open, context_refcount, context_cond, ctx_close,
                    hotplug_callback_dict, ctx_finalizer_dict,
                    dev_finalizer_dict, handle_finalizer_dict, handle_inflight,
                    ckind, auxvars >>

\* The handle is used while its context is open; while context.close() runs,
\* only the handle's close() and what it dispatches go on.
LifeNext ==
    \/ /\ context_p = "valid"
       /\ cpc[1] = "idle" \/ hpc \in { "events", "finalizing" }
       /\ HandleNext
    \/ CtxOpen(1) /\ UNCHANGED nonContextVars
    \/ LifeCloseBegin
    \/ LifeCloseEnd

LifeSpec == HandleInit /\ [][LifeNext]_vars

\* ======================================================================
\* USBTransferHelper
\* ======================================================================
\* One helper is the callback of the transfers.  The callbacks given to the
\* helper are known by name and return what they like; the initial default
\* returns False.  A callback follows the helper's contract ("just return
\* True instead of calling submit"): while it runs it may doom the transfer
\* and does nothing else to it.  Outside a dispatch one thread configures the
\* helper and uses the transfer.

\* Variant of getEventCallback that ignores the registered callbacks.
getEventCallback_defaultOnly(event, default) == default

\* self.__event_callback_dict.get(event, default)
getEventCallback(event, default) ==
    IF event \in DOMAIN helper.event_callback_dict
    THEN helper.event_callback_dict[event] ELSE default

\* setEventCallback(event, callback), with the seven statuses, the integer
\* below them and the integer above them as events.
HelperSetEventCallback ==
    /\ dispatching = {}
    /\ \E event \in EVENT_CALLBACK_SET
                      \cup { TRANSFER_COMPLETED - 1, TRANSFER_OVERFLOW + 1 },
          callback \in { "DEFAULT_ASYNC_TRANSFER_ERROR_CALLBACK", "cb1", "cb2" } :
         IF event \notin EVENT_CALLBACK_SET
         THEN /\ last' = [ op |-> "setEventCallback", exc |-> "ValueError",
                           native |-> "none", event |-> event,
                           callback |-> callback ]
              /\ UNCHANGED helper
         ELSE /\ Cardinality(DOMAIN helper.event_callback_dict \cup {event})
                   <= MaxHelperEvents
              /\ helper' = [ helper EXCEPT !.event_callback_dict =
                               [ e \in DOMAIN @ \cup {event} |->
                                   IF e = event THEN callback ELSE @[e] ] ]
              /\ last' = [ op |-> "setEventCallback", exc |-> "ok",
                           native |-> "none", event |-> event,
                           callback |-> callback ]

\* setDefaultCallback(callback)
HelperSetDefaultCallback ==
    /\ dispatching = {}
    /\ \E callback \in { "DEFAULT_ASYNC_TRANSFER_ERROR_CALLBACK", "cb1" } :
         /\ helper' = [ helper EXCEPT !.errorCallback = callback ]
         /\ last' = [ op |-> "setDefaultCallback", exc |-> "ok",
                      native |-> "none", callback |-> callback ]

\* __call__(transfer) up to the call of the callback it selects for
\* transfer.getStatus(), the status the dispatch has just delivered.
HelperSelect(t) ==
    /\ t \in dispatching
    /\ helper.pc = "idle"
    /\ last.op = "callbackWrapper"
    /\ helper' = [ helper EXCEPT
                     !.pc = "running",
                     !.selected = getEventCallback(last.status,
                                                   helper.errorCallback) ]
    /\ last' = [ op |-> "helperCall", t |-> t, exc |-> "ok", native |-> "none",
                 status |-> last.status ]

\* The selected callback returns: on a true value the helper calls
\* transfer.submit() and catches DoomedTransferError; anything else that
\* submit() raises leaves __call__.
HelperReturn(t) ==
    /\ t \in dispatching
    /\ helper.pc = "running"
    /\ \E returned \in IF helper.selected = "DEFAULT_ASYNC_TRANSFER_ERROR_CALLBACK"
                       THEN { "False" }
                       ELSE { "True", "False", "None", "1", "0" } :
         IF returned \in { "True", "1" }
         THEN /\ Submit(t)
              /\ helper' = [ helper EXCEPT
                               !.pc = IF last'.exc \in { "ok", "DoomedTransferError" }
                                      THEN "returned" ELSE "raised",
                               !.returned = returned ]
         ELSE /\ helper' = [ helper EXCEPT !.pc = "returned",
                                            !.returned = returned ]
              /\ last' = [ op |-> "helperReturn", t |-> t, exc |-> "ok",
                           native |-> "none" ]
              /\ UNCHANGED << transfer, num_iso_packets, initialized, doomed,
                              ttype, buflen, submitted_dict, inflight, native,
                              dispatching >>

\* The helper between two calls.
helperRested ==
    [ helper EXCEPT !.pc = "idle", !.selected = "none", !.returned = "none" ]

\* Every variable the helper's transfers leave alone but `helper`.
nonHelperVars ==
    << hvars, cvars, driver_fds, fd_set, poller_fds, notifiers,
       has_pollfd_finalizer, ppc, hotplug_live, hotplug_true, hotplug_enum,
       xfer, tpc >>

HelperNext ==
    \/ \E t \in Transfers :
          \/ dispatching = {} /\ GetTransfer(t) /\ UNCHANGED << helper, nonHelperVars >>
          \/ dispatching = {} /\ SetBulk(t) /\ UNCHANGED << helper, nonHelperVars >>
          \/ dispatching = {} /\ Submit(t) /\ UNCHANGED << helper, nonHelperVars >>
          \/ dispatching = {} /\ Cancel(t) /\ UNCHANGED << helper, nonHelperVars >>
          \/ /\ dispatching = {} \/ helper.pc = "running"
             /\ Doom(t)
             /\ UNCHANGED << helper, nonHelperVars >>
          \/ DispatchBegin(t) /\ UNCHANGED << helper, nonHelperVars >>
          \/ /\ HelperSelect(t)
             /\ UNCHANGED << transfer, num_iso_packets, initialized, doomed, ttype,
                             buflen, submitted_dict, inflight, native,
                             dispatching, nonHelperVars >>
          \/ HelperReturn(t) /\ UNCHANGED nonHelperVars
          \/ /\ helper.pc = "returned"
             /\ DispatchEnd(t)
             /\ helper' = helperRested
             /\ UNCHANGED nonHelperVars
          \/ /\ helper.pc = "raised"
             /\ CallbackRaises(t)
             /\ helper' = helperRested
             /\ UNCHANGED nonHelperVars
    \/ /\ HelperSetEventCallback
       /\ UNCHANGED << transfer, num_iso_packets, initialized, doomed, ttype,
                       buflen, submitted_dict, inflight, native, dispatching,
                       nonHelperVars >>
    \/ /\ HelperSetDefaultCallback
       /\ UNCHANGED << transfer, num_iso_packets, initialized, doomed, ttype,
                       buflen, submitted_dict, inflight, native, dispatching,
                       nonHelperVars >>

HelperSpec == Init /\ [][HelperNext]_vars

\* ======================================================================
\* submit() and cancel() statement by statement, across threads
\* ======================================================================
\* Threads call submit() and cancel() on the transfers while the event thread
\* dispatches completions.  Nothing in USBTransfer takes a lock: a thread can
\* be preempted between any two statements, and the native calls release the
\* interpreter lock.  A thread inside submit() is at stage "checked" (the
\* three tests passed), "added" (self.__before_submit(self) done),
\* "registered" (the registry entry set), "returning" (the native call
\* accepted the transfer; submit() has not returned yet) or "failed" (the
\* native call returned the status kept with the stage); a thread inside
\* cancel() is at
\* stage "cancelChecked" (isSubmitted() was true).

\* The record of a statement of thread th inside submit() or cancel().
RaceRet(op, th, t, exc, nat, stage) ==
    [ op |-> op, th |-> th, t |-> t, exc |-> exc, native |-> nat,
      stage |-> stage ]

\* Variant of raceRegister that leaves the registry as it is.
raceRegister_skipped(t) == submitted_dict

\* self.__submitted_dict[addressof(transfer.contents)] = self
raceRegister(t) == submitted_dict \cup {t}

\* The next statement of thread th inside submit() on transfer t.
RaceSubmit(th, t) ==
    /\ Created(t)
    /\ \/ /\ tpc[th] = << >>
          /\ tpc' = [ tpc EXCEPT ![th] = IF submitCheck(t) = "ok"
                                         THEN << "checked", t >> ELSE << >> ]
          /\ last' = RaceRet("submit", th, t, submitCheck(t), "none", "check")
          /\ UNCHANGED << submitted_dict, inflight, native >>
       \/ /\ tpc[th] = << "checked", t >>
          /\ inflight' = inflight \cup {t}
          /\ tpc' = [ tpc EXCEPT ![th] = << "added", t >> ]
          /\ last' = RaceRet("submit", th, t, "ok", "none", "before_submit")
          /\ UNCHANGED << submitted_dict, native >>
       \/ /\ tpc[th] = << "added", t >>
          /\ IF transfer[t] = "None"
             THEN /\ tpc' = [ tpc EXCEPT ![th] = << >> ]
                  /\ last' = RaceRet("submit", th, t, "AssertionError", "none",
                                     "register")
                  /\ UNCHANGED submitted_dict
             ELSE /\ submitted_dict' = raceRegister(t)
                  /\ tpc' = [ tpc EXCEPT ![th] = << "registered", t >> ]
                  /\ last' = RaceRet("submit", th, t, "ok", "none", "register")
          /\ UNCHANGED << inflight, native >>
       \/ /\ tpc[th] = << "registered", t >>
          /\ \E result \in NativeSubmitResults(t) :
               /\ native' = [ native EXCEPT
                                ![t] = IF result = SUCCESS THEN "pending" ELSE @ ]
               /\ tpc' = [ tpc EXCEPT ![th] = IF result = SUCCESS
                                              THEN << "returning", t >>
                                              ELSE << "failed", t, result >> ]
               /\ last' = RaceRet("submit", th, t, "ok", "submit", "native")
          /\ UNCHANGED << submitted_dict, inflight >>
       \/ /\ tpc[th] = << "returning", t >>
          /\ tpc' = [ tpc EXCEPT ![th] = << >> ]
          /\ last' = RaceRet("submit", th, t, "ok", "none", "return")
          /\ UNCHANGED << submitted_dict, inflight, native >>
       \/ /\ Len(tpc[th]) = 3
          /\ tpc[th][2] = t
          /\ tpc' = [ tpc EXCEPT ![th] = << >> ]
          /\ IF t \notin inflight
             THEN /\ last' = RaceRet("submit", th, t, "KeyError", "none", "rollback")
                  /\ UNCHANGED << submitted_dict, inflight >>
             ELSE /\ inflight' = inflight \ {t}
                  /\ IF t \notin submitted_dict
                     THEN /\ last' = RaceRet("submit", th, t, "KeyError", "none",
                                             "rollback")
                          /\ UNCHANGED submitted_dict
                     ELSE /\ submitted_dict' = submitted_dict \ {t}
                          /\ last' = RaceRet("submit", th, t,
                                             raiseUSBError(tpc[th][3]), "none",
                                             "rollback")
          /\ UNCHANGED native
    /\ UNCHANGED << transfer, num_iso_packets, initialized, doomed, ttype, buflen,
                    dispatching >>

\* The next statement of thread th inside cancel() on transfer t: the test of
\* isSubmitted(), then the native call on self.__transfer.
RaceCancel(th, t) ==
    /\ Created(t)
    /\ \/ /\ tpc[th] = << >>
          /\ tpc' = [ tpc EXCEPT ![th] = IF cancelCheck(t) = "ok"
                                         THEN << "cancelChecked", t >> ELSE << >> ]
          /\ last' = RaceRet("cancel", th, t, cancelCheck(t), "none", "check")
          /\ UNCHANGED << transfer, num_iso_packets, initialized, doomed, ttype,
                          buflen, submitted_dict, inflight, native, dispatching >>
       \/ /\ tpc[th] = << "cancelChecked", t >>
          /\ tpc' = [ tpc EXCEPT ![th] = << >> ]
          /\ \E result \in NativeCancelResults(t) : cancelCalled(t, result)

\* Every variable the threads leave alone but `tpc`.
nonRaceVars ==
    << hvars, cvars, driver_fds, fd_set, poller_fds, notifiers,
       has_pollfd_finalizer, ppc, hotplug_live, hotplug_true, hotplug_enum,
       xfer, helper >>

\* The steps when the threads of `submitters` call submit(), every thread
\* calls cancel() and doom(), and the event thread dispatches; a transfer is
\* created and configured while no thread is inside a call.
RaceStep(submitters) ==
    \/ \E th \in submitters, t \in Transfers :
         RaceSubmit(th, t) /\ UNCHANGED nonRaceVars
    \/ \E th \in Threads, t \in Transfers :
         RaceCancel(th, t) /\ UNCHANGED nonRaceVars
    \/ \E t \in Transfers :
          \/ /\ \A th \in Threads : tpc[th] = << >>
             /\ GetTransfer(t)
             /\ UNCHANGED << tpc, nonRaceVars >>
          \/ /\ \A th \in Threads : tpc[th] = << >>
             /\ SetBulk(t)
             /\ UNCHANGED << tpc, nonRaceVars >>
          \/ Doom(t) /\ UNCHANGED << tpc, nonRaceVars >>
          \/ DispatchBegin(t) /\ UNCHANGED << tpc, nonRaceVars >>
          \/ DispatchEnd(t) /\ UNCHANGED << tpc, nonRaceVars >>

\* One thread submits.
RaceNext == RaceStep({1})

RaceSpec == Init /\ [][RaceNext]_vars

\* Every thread submits.
SubmitRaceNext == RaceStep(Threads)

SubmitRaceSpec == Init /\ [][SubmitRaceNext]_vars

\* ======================================================================
\* mayRaiseUSBError on its own
\* ======================================================================
\* A call of mayRaiseUSBError(value): the value comes back, or the exception
\* raised is built with the value (USBError.__init__ stores a value that is
\* not None in self.value).
MayRaiseUSBError ==
    \E value \in (ERROR_OTHER - MaxReturnValue) .. MaxReturnValue :
        last' = [ op |-> "mayRaiseUSBError", native |-> "none",
                  arg |-> value, exc |-> mayRaiseUSBError(value),
                  value |-> value ]

ErrorNext == MayRaiseUSBError /\ UNCHANGED stateVars

ErrorSpec == Init /\ [][ErrorNext]_vars

\* ======================================================================
\* Properties
\* ======================================================================

\* C1: in every state between operations, a transfer is a key of the
\* registry exactly when the driver holds it (it was submitted successfully
\* and its completion was not dispatched yet), and exactly then it is a
\* member of its handle's in-flight set.
C1_RegistryIffSubmitted ==
    \A t \in Transfers :
        /\ (t \in submitted_dict) <=> (native[t] # "idle")
        /\ (t \in submitted_dict) <=> (t \in inflight)

\* A submit() has succeeded: the transfer is registered, in flight and held
\* by the driver.
C1_Witness ==
    /\ last.op = "submit"
    /\ last.exc = "ok"
    /\ last.t \in submitted_dict \cap inflight
    /\ native[last.t] = "pending"

\* The methods that alter a transfer or hand it to the driver.
ConfigureOps == { "setControl", "setBulk", "setInterrupt", "setIsochronous" }
AlterOps == ConfigureOps \cup { "setBuffer", "submit" }

\* C2: while a transfer is submitted, setControl, setBulk, setInterrupt,
\* setIsochronous, setBuffer and submit each fail with ValueError, make no
\* native call and leave the registry, the in-flight set, the buffer and the
\* configuration unchanged; cancel() is let through to the native cancel call.
C2_SubmittedRejectsAlteration ==
    [][ \A t \in Transfers :
          /\ (isSubmitted(t) /\ last'.op \in AlterOps /\ last'.t = t)
                => /\ last'.exc = "ValueError"
                   /\ last'.native = "none"
                   /\ UNCHANGED << submitted_dict, inflight, config, transfer,
                                   doomed, native >>
          /\ (isSubmitted(t) /\ last'.op = "cancel" /\ last'.t = t)
                => /\ last'.native = "cancel"
                   /\ last'.exc \in { "ok" } \cup USBErrorNames
      ]_vars

\* An altering method has just been rejected on a transfer that is submitted.
C2_Witness ==
    /\ last.op \in AlterOps
    /\ last.exc = "ValueError"
    /\ isSubmitted(last.t)
    /\ native[last.t] = "pending"

\* C3: submit() makes the native submit call exactly when the transfer is
\* configured, not submitted and not doomed; otherwise it raises, ValueError
\* when the transfer is submitted or unconfigured and DoomedTransferError in
\* the remaining (doomed) case, with no native call and with the registry and
\* the in-flight set unchanged.
C3_SubmitChecksBeforeNative ==
    [][ \A t \in Transfers :
          (last'.op = "submit" /\ last'.t = t)
             => IF initialized[t] /\ ~isSubmitted(t) /\ ~doomed[t]
                THEN last'.native = "submit"
                ELSE /\ last'.native = "none"
                     /\ last'.exc = IF isSubmitted(t) \/ ~initialized[t]
                                    THEN "ValueError"
                                    ELSE "DoomedTransferError"
                     /\ UNCHANGED << submitted_dict, inflight, native >>
      ]_vars

\* submit() has just been refused on a doomed transfer, before any native
\* call.
C3_Witness ==
    /\ last.op = "submit"
    /\ last.exc = "DoomedTransferError"
    /\ last.native = "none"
    /\ doomed[last.t]
    /\ last.t \notin submitted_dict \cup inflight

\* C4: when the native submit call returns a failure status, submit() leaves
\* the transfer out of the in-flight set and out of the registry, raises the
\* USBError subclass of that status, and leaves the transfer configured and
\* not submitted: the checks of a later submit() pass and the driver does
\* not hold the transfer.
C4_FailedSubmitRollsBack ==
    [][ \A t \in Transfers :
          (last'.op = "submit" /\ last'.t = t /\ last'.native = "submit"
             /\ last'.exc # "ok")
             => /\ t \notin submitted_dict'
                /\ t \notin inflight'
                /\ last'.result # SUCCESS
                /\ last'.result = ERROR_IO => last'.exc = "USBErrorIO"
                /\ last'.result = ERROR_NO_DEVICE => last'.exc = "USBErrorNoDevice"
                /\ last'.result = ERROR_NOT_SUPPORTED
                      => last'.exc = "USBErrorNotSupported"
                /\ last'.result = ERROR_BUSY => last'.exc = "USBErrorBusy"
                /\ last'.exc \in USBErrorNames \ { "USBError" }
                /\ initialized'[t]
                /\ native'[t] = "idle"
                /\ UNCHANGED << config, transfer, doomed >>
                /\ (submitCheck(t) = "ok")'
      ]_vars

\* The native submit call has just failed with ERROR_NO_DEVICE.
C4_Witness ==
    /\ last.op = "submit"
    /\ last.native = "submit"
    /\ last.exc = "USBErrorNoDevice"
    /\ last.t \notin submitted_dict \cup inflight
    /\ initialized[last.t]

\* C5: cancel() on a transfer that is not submitted (never submitted, already
\* completed, or closed) raises USBErrorNotFound and makes no native cancel
\* call.
C5_CancelNotSubmitted ==
    [][ \A t \in Transfers :
          (~isSubmitted(t) /\ last'.op = "cancel" /\ last'.t = t)
             => /\ last'.exc = "USBErrorNotFound"
                /\ last'.native = "none"
                /\ UNCHANGED << native, submitted_dict, inflight >>
      ]_vars

\* cancel() has just been refused on a transfer whose completion was already
\* dispatched.
C5_Witness ==
    /\ last.op = "cancel"
    /\ last.exc = "USBErrorNotFound"
    /\ last.native = "none"
    /\ last.t \in dispatching
    /\ ~isSubmitted(last.t)

\* C6: a successful cancel() changes neither the registry nor the in-flight
\* set and starts no user callback; the transfer stays submitted, and it
\* leaves the registry only by the dispatch of its completion.
C6_CancelIsARequest ==
    [][ \A t \in Transfers :
          /\ (last'.op = "cancel" /\ last'.t = t /\ last'.exc = "ok")
                => /\ UNCHANGED << submitted_dict, inflight, dispatching >>
                   /\ isSubmitted(t)'
                   /\ native'[t] = "cancelling"
          /\ (t \in submitted_dict /\ t \notin submitted_dict')
                => /\ last'.op = "callbackWrapper"
                   /\ last'.t = t
      ]_vars

\* cancel() has just succeeded and the transfer is still registered and in
\* flight.
C6_Witness ==
    /\ last.op = "cancel"
    /\ last.exc = "ok"
    /\ isSubmitted(last.t)
    /\ last.t \in inflight
    /\ native[last.t] = "cancelling"

\* C7: under fair event processing a submission whose cancellation was
\* requested is eventually handed back by the driver; the step that ends it is
\* a completion dispatch that finds the registry entry and starts the user
\* callback with status CANCELLED or COMPLETED; and every completion dispatch
\* consumes the registry entry and the driver's hold of one submission, so a
\* second dispatch for the same submission does not occur.
C7_CancelledSubmissionCompletesOnce ==
    /\ \A t \in Transfers :
          (native[t] = "cancelling") ~> (native[t] # "cancelling")
    /\ [][ \A t \in Transfers :
             /\ (native[t] = "cancelling" /\ native'[t] # "cancelling")
                   => /\ last'.op = "callbackWrapper"
                      /\ last'.t = t
                      /\ last'.exc = "ok"
                      /\ last'.status \in { TRANSFER_CANCELLED, TRANSFER_COMPLETED }
                      /\ dispatching' = {t}
             /\ (last'.op = "callbackWrapper" /\ last'.t = t)
                   => /\ last'.exc = "ok"
                      /\ t \in submitted_dict
                      /\ native[t] # "idle"
                      /\ t \notin submitted_dict'
                      /\ native'[t] = "idle"
         ]_vars

\* The completion of a cancelled submission has just been dispatched with
\* status CANCELLED and its user callback is running.
C7_Witness ==
    /\ last.op = "callbackWrapper"
    /\ last.exc = "ok"
    /\ last.status = TRANSFER_CANCELLED
    /\ last.t \in dispatching
    /\ native[last.t] = "idle"

\* C8: when the user callback of a completion starts, the transfer is out of
\* the registry and out of the in-flight set, so isSubmitted() is false and,
\* unless the transfer is doomed, the checks of the configuration methods and
\* of submit() pass; and when the callback returns with the transfer not
\* doomed, the dispatch changes nothing: a transfer that is still configured
\* and was not resubmitted passes the checks of a fresh submit().
C8_DispatchUnregistersBeforeCallback ==
    [][ \A t \in Transfers :
          /\ (last'.op = "callbackWrapper" /\ last'.t = t /\ last'.exc = "ok")
                => /\ dispatching' = {t}
                   /\ t \notin submitted_dict'
                   /\ t \notin inflight'
                   /\ ~isSubmitted(t)'
                   /\ initialized'[t]
                   /\ ~doomed'[t]
                         => /\ (submitCheck(t) = "ok")'
                            /\ (setControlCheck(t) = "ok")'
                            /\ (setBulkCheck(t) = "ok")'
                            /\ (setInterruptCheck(t) = "ok")'
                            /\ \A n \in 0..MaxBufLen :
                                  ttype'[t] # TRANSFER_TYPE_CONTROL
                                  /\ (ttype'[t] = TRANSFER_TYPE_ISOCHRONOUS
                                        => n = buflen'[t])
                                  => (setBufferCheck(t, n) = "ok")'
          /\ (last'.op = "callbackReturn" /\ last'.t = t /\ ~doomed[t])
                => /\ UNCHANGED << transfer, config, doomed, submitted_dict,
                                   inflight, native >>
                   /\ last'.exc \in { "ok", "CallbackError" }
                   /\ (initialized[t] /\ ~isSubmitted(t))
                         => (submitCheck(t) = "ok")'
      ]_vars

\* The user callback of a completion has resubmitted its own transfer.
C8_Witness ==
    /\ last.op = "submit"
    /\ last.exc = "ok"
    /\ last.t \in dispatching
    /\ isSubmitted(last.t)

\* C9: whenever a completion dispatch ends for a transfer that is doomed (it
\* was doomed before or during the user callback), the transfer is closed.
\* Stated for the user callbacks that return; one that raises leaves
\* __callbackWrapper before the doomed flag is read.
C9_DoomedClosedWhenDispatchEnds ==
    [][ \A t \in Transfers :
          (last'.op = "callbackReturn" /\ last'.t = t
             /\ last'.exc # "CallbackError" /\ doomed[t])
             => transfer'[t] = "None"
      ]_vars

\* C10 as claimed: on a doomed transfer every configuration method and
\* submit() raise DoomedTransferError, whatever the rest of its state.
C10_DoomedAlwaysRaisesDoomedTransferError ==
    [][ \A t \in Transfers :
          (doomed[t] /\ last'.op \in ConfigureOps \cup { "submit" } /\ last'.t = t)
             => last'.exc = "DoomedTransferError"
      ]_vars

\* C10 as amended: on a doomed transfer every configuration method and
\* submit() raise before any native call and change nothing; the exception
\* is DoomedTransferError unless an earlier test of the method fails:
\* ValueError while the transfer is submitted, ValueError from submit() on a
\* transfer that is not configured, TypeError from setIsochronous on a
\* transfer allocated without isochronous slots.
C10_DoomedRefused ==
    [][ \A t \in Transfers :
          (doomed[t] /\ last'.op \in ConfigureOps \cup { "submit" } /\ last'.t = t)
             => /\ last'.native = "none"
                /\ UNCHANGED << transfer, config, doomed, submitted_dict, inflight,
                                native >>
                /\ last'.exc =
                     IF isSubmitted(t) THEN "ValueError"
                     ELSE IF last'.op = "submit" /\ ~initialized[t]
                     THEN "ValueError"
                     ELSE IF last'.op = "setIsochronous" /\ num_iso_packets[t] = 0
                     THEN "TypeError"
                     ELSE "DoomedTransferError"
      ]_vars

\* A configuration method has just raised DoomedTransferError on a doomed
\* transfer that is neither submitted nor closed.
C10_Witness ==
    /\ last.op \in ConfigureOps
    /\ last.exc = "DoomedTransferError"
    /\ doomed[last.t]
    /\ transfer[last.t] = "Ptr"
    /\ ~isSubmitted(last.t)

\* C11: once a transfer is doomed it stays doomed through every operation
\* (configuration, submit, cancel, doom, close, completion dispatch), and no
\* operation on a doomed transfer makes the native submit call for it.
C11_DoomIrreversible ==
    [][ \A t \in Transfers :
          doomed[t]
             => /\ doomed'[t]
                /\ ~(last'.op = "submit" /\ last'.t = t /\ last'.native = "submit")
      ]_vars

\* A transfer doomed while it was submitted has completed, and the submit()
\* of its user callback has just been refused.
C11_Witness ==
    /\ last.op = "submit"
    /\ last.exc = "DoomedTransferError"
    /\ last.native = "none"
    /\ last.t \in dispatching
    /\ initialized[last.t]
    /\ native[last.t] = "idle"

\* C12: the native free of a transfer's descriptor happens only in a step
\* before and after which the transfer is out of the registry; close() on a
\* submitted transfer raises ValueError and releases nothing; the finalizer
\* called on a transfer that is in the registry makes the native cancel call
\* and enters its drain loop, and stays in the loop (or is left by an
\* exception, without freeing) for as long as the transfer is in the registry.
C12_NeverFreedWhileRegistered ==
    [][ \A t \in HTransfers :
          /\ (fin[t] # "freed" /\ fin'[t] = "freed")
                => /\ t \notin submitted_dict
                   /\ t \notin submitted_dict'
                   /\ last'.native = "free"
          /\ (isSubmitted(t) /\ last'.op = "close" /\ last'.t = t)
                => /\ last'.exc = "ValueError"
                   /\ last'.native = "none"
                   /\ UNCHANGED << fin, transfer, submitted_dict, inflight, native >>
          /\ (isSubmitted(t) /\ fin[t] = "armed" /\ last'.op = "finalize"
                /\ last'.t = t)
                => /\ last'.native = "cancel"
                   /\ fin'[t] = "events"
          /\ (isSubmitted(t) /\ fin[t] = "events")
                => fin'[t] \in { "events", "failed" }
      ]_vars

\* A finalizer called on a submitted transfer has drained it and has just
\* freed the descriptor.
C12_Witness ==
    /\ last.op = "finalize"
    /\ last.native = "free"
    /\ DOMAIN last = { "op", "t", "exc", "native", "result" }
    /\ fin[last.t] = "freed"
    /\ last.t \notin submitted_dict

\* C13: close() makes the native release call only in a state where the
\* in-flight set is empty; every transfer that was in flight when close() was
\* called has had cancel() called on it before close() first blocks, and so
\* has every transfer in flight at the head of a later pass before close()
\* blocks again; a pass in which every cancel() succeeded or raised
\* USBErrorNotFound or USBErrorNoDevice covers all the uncancelled members of
\* the in-flight set and goes on to event handling without raising.
C13_ReleaseAfterDrain ==
    /\ [](hpc \in { "events", "finalizing", "released" }
             => closeStart \subseteq cancelled_set)
    /\ [][ /\ (hpc # "released" /\ hpc' = "released")
                => /\ inflight = {}
                   /\ inflight' = {}
                   /\ last'.native = "libusb_close"
           /\ (hpc' = "events" /\ last'.op = "handleClose")
                => inflight \subseteq cancelled_set'
           /\ (last'.op = "handleClose" /\ last'.native = "cancel"
                 /\ \A t \in DOMAIN last'.cancel :
                       last'.cancel[t] \in { SUCCESS, ERROR_NOT_FOUND, ERROR_NO_DEVICE })
                => /\ hpc' = "events"
                   /\ last'.exc = "ok"
                   /\ DOMAIN last'.cancel
                        = inflight \ (IF hpc = "open" THEN {} ELSE cancelled_set)
         ]_vars

\* The handle was released by a close() called with a transfer in flight.
C13_Witness ==
    /\ hpc = "released"
    /\ last.native = "libusb_close"
    /\ closeStart # {}
    /\ closeStart \subseteq cancelled_set
    /\ inflight = {}

\* C14 as claimed: when the handle is released, the completions dispatched
\* since close() was called are as many as the transfers in flight at the
\* call, and the in-flight set is empty.
C14_ExactlyNDispatches ==
    hpc = "released"
       => /\ ndispatch = Cardinality(closeStart)
          /\ inflight = {}

\* C14 as amended: from the call of close() on, the completions dispatched
\* plus the transfers in flight are as many as the transfers in flight at the
\* call plus the submissions accepted since (made by user callbacks); when
\* the handle is released the in-flight set is empty, so the completions
\* dispatched are N plus those submissions, and N when no callback submits.
C14_DispatchesMatchSubmissions ==
    /\ hpc # "open"
          => ndispatch + Cardinality(inflight)
               = Cardinality(closeStart) + nsubmit
    /\ hpc = "released"
          => /\ inflight = {}
             /\ ndispatch = Cardinality(closeStart) + nsubmit
             /\ nsubmit = 0 => ndispatch = Cardinality(closeStart)

\* The handle was released after a user callback resubmitted during the
\* drain: more completions were dispatched than transfers were in flight.
C14_Witness ==
    /\ hpc = "released"
    /\ closeStart # {}
    /\ nsubmit > 0
    /\ ndispatch > Cardinality(closeStart)

\* C15: under HandleFairness, a close() that is inside its drain loop
\* eventually leaves the loop.
C15_CloseEventuallyReturns ==
    (hpc = "events") ~> (hpc # "events")

\* C16: a direct call of handleEvents() whose native call returns
\* ERROR_INTERRUPTED raises USBErrorInterrupted; when the call made by
\* close()'s drain loop or by the finalizer's drain loop returns it, nothing is
\* raised for it and the loop test is made again: close() leaves its loop
\* exactly when the in-flight set is empty and otherwise blocks again, the
\* finalizer frees exactly when the transfer is out of the registry and
\* otherwise blocks again.
C16_InterruptedSwallowedByDrainLoops ==
    [][ /\ (last'.op = "handleEvents" /\ last'.result = ERROR_INTERRUPTED)
              => last'.exc = "USBErrorInterrupted"
        /\ (hpc = "events" /\ last'.op = "handleClose"
              /\ last'.result = ERROR_INTERRUPTED)
              => /\ last'.exc # "USBErrorInterrupted"
                 /\ (hpc' = "finalizing") <=> (inflight = {})
                 /\ (inflight # {} /\ last'.exc = "ok") => hpc' = "events"
        /\ (hpc = "events" /\ hpc' = "finalizing") => inflight = {}
        /\ \A t \in HTransfers :
              (fin[t] = "events" /\ last'.op = "finalize" /\ last'.t = t
                 /\ last'.result = ERROR_INTERRUPTED)
                 => /\ last'.exc = "ok"
                    /\ fin'[t] = IF isSubmitted(t) THEN "events" ELSE "freed"
      ]_vars

\* close()'s handleEvents call has just returned ERROR_INTERRUPTED with a
\* transfer still in flight, and close() is blocked in the next call.
C16_Witness ==
    /\ hpc = "events"
    /\ last.op = "handleClose"
    /\ last.result = ERROR_INTERRUPTED
    /\ last.exc = "ok"
    /\ inflight # {}


ctxGuardedStep(th) ==
    /\ last'.op \in { "enter", "call" }
    /\ last'.th = th
    /\ cpc'[th] # cpc[th]

\* What C18 and its original statement have in common: a call that enters a
\* context never closed and never opened opens it with libusb_init_context and
\* goes on to the wrapped method; after close(), a call neither opens the
\* context nor makes a native call.
ctxImplicitOpenOnlyBeforeClose(th) ==
    /\ ctxGuardedStep(th) /\ last'.op = "enter" /\ context_p = "null" /\ auto_open
       => context_p' = "valid" /\ last'.native = "libusb_init"
    /\ ctxGuardedStep(th) /\ last'.op = "call" /\ context_p = "valid"
       => cpc'[th] = "native"
    /\ ctxGuardedStep(th) /\ context_p = "null" /\ ~auto_open
       => /\ context_p' = "null"
          /\ last'.native = "none"
          /\ last'.op = "call" => cpc'[th] = "leaving"

ctxInsideGuarded(th) == cpc[th] \in { "entered", "native", "leaving" }

\* Thread c is in close(): called, and not yet returned.
ctxInClose(c) ==
    cpc[c] \in { "closeAcquire", "closeWait", "hotplug", "cascade", "closeDone" }

\* Thread c is in close() past its wait: it holds the lock until it returns.
ctxClosePastWait(c) == cpc[c] \in { "hotplug", "cascade", "closeDone" }

\* What C19 and its original statement have in common: libusb_exit is called
\* only while no thread is inside a guarded method; close() leaves its wait
\* only with no call in progress on an open context; the wrapped method runs
\* only on an open context; and a call that starts after close() nulled the
\* context makes no native call.
ctxExitExcludesCalls ==
    /\ last'.native = "libusb_exit"
       => /\ context_refcount = 0
          /\ \A th \in Threads : ~ctxInsideGuarded(th)
    /\ \A c \in Threads :
         cpc[c] \in { "closeAcquire", "closeWait" } /\ ctxClosePastWait(c)'
           => context_refcount = 0 \/ context_p = "null"
    /\ \A th \in Threads : cpc'[th] = "native" => context_p' = "valid"
    /\ \A th \in Threads :
         ctxGuardedStep(th) /\ last'.op = "enter" /\ context_p = "null"
             /\ ~auto_open
           => context_p' = "null" /\ last'.native = "none"

\* C19 as stated: libusb_exit never runs while another thread is inside a
\* guarded method, close() waits until no call is in progress, and a guarded
\* call that starts while a thread is in close() finds the context closed and
\* makes no native call.
C19_CallsDuringCloseSeeClosed ==
    [][ /\ ctxExitExcludesCalls
        /\ \A th \in Threads :
             /\ ctxGuardedStep(th) /\ last'.op = "enter"
             /\ \E c \in Threads \ {th} : ctxInClose(c)
             => context_p' = "null" /\ last'.native = "none"
      ]_vars

\* C19, amended: libusb_exit never runs while another thread is inside a
\* guarded method and close() waits until no call is in progress; no guarded
\* call starts between the end of that wait and the return of close(); a call
\* that starts while close() has not passed its wait is admitted like any
\* other, and finds the context closed only if it was closed already.
C19_ExitWaitsForCalls ==
    [][ /\ ctxExitExcludesCalls
        /\ \A th \in Threads :
             /\ ctxGuardedStep(th) /\ last'.op = "enter"
             /\ \E c \in Threads \ {th} : ctxInClose(c)
             => /\ \A c \in Threads : ~ctxClosePastWait(c)
                /\ context_p' = context_p
                /\ context_refcount' = context_refcount + 1
      ]_vars

\* close() is waiting while another thread runs a wrapped method on the
\* context, which is still open.
C19_Witness ==
    \E c, th \in Threads :
        /\ cpc[c] = "closeWait"
        /\ cpc[th] = "native"
        /\ context_refcount > 0
        /\ context_p = "valid"


\* The external timeout of the last poll() is present: poll was given a
\* number that is not negative.
pollExternalPresent == last.timeout # None /\ last.timeout[1] >= 0

\* C20: the timeout poll() passes to the external poller is the minimum of
\* the external timeout and the driver's when both are present, a driver
\* timeout of zero included; the driver's alone when the external timeout is
\* None or negative; the external timeout alone when the driver reports no
\* timeout pending.
C20_EffectiveTimeout ==
    last.op = "poll" /\ last.exc = "ok"
    => /\ pollExternalPresent /\ last.result = 1
          => last.usb_timeout
               = Some(min(last.timeout[1], last.next_usb_timeout[1]))
       /\ ~pollExternalPresent => last.usb_timeout = last.next_usb_timeout
       /\ pollExternalPresent /\ last.result = 0
          => last.usb_timeout = last.timeout


\* C21: after the external poller returns, poll() performs the zero-timeout
\* drain of driver events (handleEventsTimeout) when the poller returned
\* nothing, when it returned only events on the driver's descriptors, and
\* when it returned some event on a descriptor that is not the driver's.
C21_PollAlwaysDrains ==
    last.op = "poll" /\ last.exc = "ok"
    => /\ last.events.usb + last.events.other = 0 => last.handled
       /\ last.events.usb > 0 /\ last.events.other = 0 => last.handled
       /\ last.events.other > 0 => last.handled


\* C22: once USBPoller has been called, and after any fd-added and
\* fd-removed notifications, __fd_set is the driver's current set of poll
\* descriptors, every descriptor in it is registered with the external
\* poller, and register and unregister raise ValueError for the descriptors
\* in it.
C22_FdSetTracksDriver ==
    /\ ppc # "none"
       => /\ fd_set = driver_fds
          /\ fd_set \subseteq poller_fds
    /\ last.op \in { "register", "unregister" } /\ last.fd \in fd_set
       => last.exc = "ValueError"


\* C23: a hotplug callback that returned a true value is never called again
\* for the same registration, neither for another device of the same pass of
\* event handling nor for another device of the enumeration made inside
\* hotplugRegisterCallback.
C23_NoCallAfterTrue ==
    last.op = "wrapped_callback" => ~last.again

\* C24: hotplugDeregisterCallback(handle) raises nothing, for a handle that
\* is not known or whose registration deregistered itself by returning true
\* as for a registered one, so a second call for the same handle is a no-op.
C24_DeregisterNeverRaises ==
    last.op = "hotplugDeregisterCallback" => last.exc = "ok"

\* C25: every registration the driver still delivers to has its trampoline
\* in __hotplug_callback_dict (or, while hotplugRegisterCallback is still in
\* the native registration call, in that call's frame); close() pops every
\* entry of the table with a deregistration at the driver, and calls
\* libusb_exit only when the table is empty and no registration is left at
\* the driver; the table is empty while the context is closed.
C25_LiveRegistrationsKeptAndDeregistered ==
    [][ /\ hotplug_live' \subseteq
             hotplug_callback_dict'
               \cup (IF hotplug_enum' # << >> THEN { hotplug_enum'[1] } ELSE {})
        /\ last'.native = "libusb_exit"
           => hotplug_callback_dict = {} /\ hotplug_live = {}
        /\ cpc[1] = "hotplug" /\ hotplug_callback_dict' # hotplug_callback_dict
           => /\ last'.native = "libusb_hotplug_deregister_callback"
              /\ hotplug_live' \cap
                   (hotplug_callback_dict \ hotplug_callback_dict') = {}
        /\ context_p' = "null" => hotplug_callback_dict' = {}
      ]_vars

\* close() has deregistered at the driver the last registration that was
\* live, and has not called libusb_exit yet.
C25_Witness ==
    /\ last.op = "close"
    /\ last.native = "libusb_hotplug_deregister_callback"
    /\ cpc[1] = "hotplug"
    /\ hotplug_callback_dict = {}
    /\ hotplug_live = {}
    /\ context_p = "valid"

\* C26: after setBuffer(b) on a transfer that is not submitted and whose kind
\* is not isochronous, getBuffer() returns a value equal to b, and after
\* setBuffer(n) with an integer n a buffer of length n.
C26_SetBufferRoundTrips ==
    (last.op = "setBuffer" /\ xfer.type # TRANSFER_TYPE_ISOCHRONOUS)
      => /\ getBuffer = Some(create_binary_buffer(last.arg))
         /\ last.arg.is_int => Len(getBuffer[1]) = last.arg.size

\* C26, amended: on a bulk or an interrupt transfer that is not submitted
\* setBuffer succeeds and getBuffer() then returns a value equal to b (a
\* buffer of length n after setBuffer(n)); on a control transfer, and on a
\* transfer that was never configured, setBuffer raises ValueError.
C26_SetBufferRoundTripsBulkInterrupt ==
    last.op = "setBuffer"
      => /\ xfer.type \in { TRANSFER_TYPE_BULK, TRANSFER_TYPE_INTERRUPT }
              => /\ last.exc = "ok"
                 /\ getBuffer = Some(create_binary_buffer(last.arg))
                 /\ last.arg.is_int => Len(getBuffer[1]) = last.arg.size
         /\ xfer.type = TRANSFER_TYPE_CONTROL => last.exc = "ValueError"

\* C26 witness: a bulk transfer was given a new buffer of two different
\* bytes, and a control transfer refused one.
C26_Witness ==
    /\ last.op = "setBuffer"
    /\ xfer.type = TRANSFER_TYPE_BULK
    /\ last.arg = [ is_int |-> FALSE, size |-> 2, data |-> << 0, 1 >> ]
    /\ getBuffer = Some(<< 0, 1 >>)

\* C27: after a successful setControl(request_type, request, value, index,
\* data) the native buffer is the eight bytes of the setup (request type,
\* request, then value, index and len(data) as 16-bit little-endian numbers)
\* followed by data, the native length is 8 + len(data) and getBuffer()
\* returns the payload alone; setBuffer on a control transfer raises
\* ValueError.
C27_ControlSetupAndPayload ==
    /\ (last.op = "setControl" /\ last.exc = "ok")
         => LET data == create_binary_buffer(last.arg)
                le16(v) == << v % 256, v \div 256 >>
            IN  /\ xfer.buffer =
                      << last.result[1], last.result[2] >>
                        \o le16(last.result[3]) \o le16(last.result[4])
                        \o le16(Len(data)) \o data
                /\ xfer.length = CONTROL_SETUP_SIZE + Len(data)
                /\ getBuffer = Some(data)
    /\ (last.op = "setBuffer" /\ xfer.type = TRANSFER_TYPE_CONTROL)
         => last.exc = "ValueError"

\* C28: on a transfer that is neither submitted nor doomed, setIsochronous
\* raises TypeError when the transfer was allocated with no isochronous
\* slot, and otherwise ValueError when the lengths add up to more than the
\* buffer holds, when there are more lengths than slots, and when the
\* lengths are omitted and the slots do not divide the buffer length.
C28_SetIsochronousRefusals ==
    (last.op = "setIsochronous" /\ ~xfer.doomed)
      => /\ xfer.iso_packets = 0 => last.exc = "TypeError"
         /\ (xfer.iso_packets > 0 /\ last.result = None
               /\ last.arg.size % xfer.iso_packets # 0)
              => last.exc = "ValueError"
         /\ (xfer.iso_packets > 0 /\ last.result # None)
              => /\ Len(last.result[1]) > xfer.iso_packets
                      => last.exc = "ValueError"
                 /\ SumSeq(last.result[1]) > last.arg.size
                      => last.exc = "ValueError"

\* C28 witness: two slots, a buffer of two bytes, lengths 2 and 1 refused.
C28_Witness ==
    /\ last.op = "setIsochronous"
    /\ ~xfer.doomed
    /\ xfer.iso_packets = 2
    /\ last.arg.size = 2
    /\ last.result = Some(<< 2, 1 >>)
    /\ last.exc = "ValueError"

\* C29: whatever calls were made on it, on an isochronous transfer the
\* configured packet lengths add up to at most the native buffer length and
\* the configured packet count is at most the allocated slots.
C29_IsoLengthsFitBuffer ==
    (xfer # << >> /\ xfer.type = TRANSFER_TYPE_ISOCHRONOUS)
      => /\ SumSeq(isoLengths) <= xfer.length
         /\ xfer.num_iso_packets <= xfer.iso_packets

\* The concatenation of a sequence of byte strings.
RECURSIVE chain(_)
chain(buffers) ==
    IF buffers = << >> THEN << >> ELSE Head(buffers) \o chain(Tail(buffers))

\* The transfer is set for isochronous use with its buffer shared evenly
\* among all its slots, as setIsochronous leaves it when the lengths are
\* omitted.
isoEvenlySet ==
    /\ xfer.type = TRANSFER_TYPE_ISOCHRONOUS
    /\ xfer.initialized
    /\ xfer.num_iso_packets = xfer.iso_packets
    /\ \A i \in 1 .. xfer.iso_packets :
         xfer.desc[i].length * xfer.iso_packets = xfer.length

\* C30: a successful setIsochronous without lengths gives each of the k
\* slots buffer_length / k; on a transfer so set, getISOBufferList returns
\* the k consecutive slices of the buffer of that length, which concatenate
\* to the buffer, and iterISO yields per slot its status and the
\* actual_length bytes found from the sum of the lengths of the slots before
\* it: nothing while no actual_length is set, the whole buffer once every
\* actual_length is the length.
C30_EvenSlotsAndSlices ==
    /\ (last.op = "setIsochronous" /\ last.exc = "ok" /\ last.result = None)
         => /\ isoEvenlySet
            /\ xfer.buffer = create_binary_buffer(last.arg)
    /\ (last.op = "getISOBufferList" /\ last.exc = "ok" /\ isoEvenlySet)
         => LET each == xfer.length \div xfer.iso_packets
            IN  /\ Len(last.result) = xfer.iso_packets
                /\ \A i \in 1 .. xfer.iso_packets :
                     last.result[i] = SubSeq(xfer.buffer, ((i - 1) * each) + 1,
                                             i * each)
                /\ chain(last.result) = xfer.buffer
    /\ (last.op = "iterISO" /\ last.exc = "ok" /\ isoEvenlySet)
         => LET each == xfer.length \div xfer.iso_packets
                got(i) == last.result[i].buffer
            IN  /\ Len(last.result) = xfer.iso_packets
                /\ \A i \in 1 .. xfer.iso_packets :
                     /\ last.result[i].status = xfer.desc[i].status
                     /\ Len(got(i)) = xfer.desc[i].actual_length
                     /\ \A j \in 1 .. Len(got(i)) :
                          ((i - 1) * each) + j <= xfer.length
                            => got(i)[j] = xfer.buffer[((i - 1) * each) + j]
                /\ (\A i \in 1 .. xfer.iso_packets :
                      xfer.desc[i].actual_length = 0)
                     => chain([ i \in 1 .. xfer.iso_packets |-> got(i) ])
                          = << >>
                /\ (\A i \in 1 .. xfer.iso_packets :
                      xfer.desc[i].actual_length = xfer.desc[i].length)
                     => chain([ i \in 1 .. xfer.iso_packets |-> got(i) ])
                          = xfer.buffer

\* C30 witness: two slots share a buffer of two different bytes, both were
\* received, and iterISO yielded one byte each.
C30_Witness ==
    /\ last.op = "iterISO"
    /\ isoEvenlySet
    /\ xfer.iso_packets = 2
    /\ xfer.buffer = << 0, 1 >>
    /\ last.result = << [ status |-> TRANSFER_COMPLETED, buffer |-> << 0 >> ],
                        [ status |-> TRANSFER_COMPLETED, buffer |-> << 1 >> ] >>

\* C31: mayRaiseUSBError(v) returns v for every v >= 0; for every v < 0 it
\* raises a USBError carrying v: the subclass of the libusb_error code v
\* when v is one (no two codes share a subclass), plain USBError otherwise.
C31_MayRaiseUSBError ==
    last.op = "mayRaiseUSBError"
      => /\ last.arg >= 0 => last.exc = "ok" /\ last.value = last.arg
         /\ last.arg < 0
              => /\ last.exc \in USBErrorNames
                 /\ last.value = last.arg
                 /\ last.arg = ERROR_IO => last.exc = "USBErrorIO"
                 /\ last.arg = ERROR_INVALID_PARAM
                      => last.exc = "USBErrorInvalidParam"
                 /\ last.arg = ERROR_ACCESS => last.exc = "USBErrorAccess"
                 /\ last.arg = ERROR_NO_DEVICE => last.exc = "USBErrorNoDevice"
                 /\ last.arg = ERROR_NOT_FOUND => last.exc = "USBErrorNotFound"
                 /\ last.arg = ERROR_BUSY => last.exc = "USBErrorBusy"
                 /\ last.arg = ERROR_TIMEOUT => last.exc = "USBErrorTimeout"
                 /\ last.arg = ERROR_OVERFLOW => last.exc = "USBErrorOverflow"
                 /\ last.arg = ERROR_PIPE => last.exc = "USBErrorPipe"
                 /\ last.arg = ERROR_INTERRUPTED
                      => last.exc = "USBErrorInterrupted"
                 /\ last.arg = ERROR_NO_MEM => last.exc = "USBErrorNoMem"
                 /\ last.arg = ERROR_NOT_SUPPORTED
                      => last.exc = "USBErrorNotSupported"
                 /\ last.arg = ERROR_OTHER => last.exc = "USBErrorOther"
                 /\ last.arg \notin DOMAIN STATUS_TO_EXCEPTION_DICT
                      => last.exc = "USBError"
         /\ \A a, b \in DOMAIN STATUS_TO_EXCEPTION_DICT :
              STATUS_TO_EXCEPTION_DICT[a] = STATUS_TO_EXCEPTION_DICT[b] => a = b

\* C31 witness: ERROR_IO was given and USBErrorIO raised with it.
C31_Witness ==
    /\ last.op = "mayRaiseUSBError"
    /\ last.arg = ERROR_IO
    /\ last.exc = "USBErrorIO"
    /\ last.value = ERROR_IO

\* C39: a configuration call that raises (setControl, setBulk, setInterrupt
\* or setIsochronous) leaves the configuration of the transfer as it was:
\* the configured flag, the type, the buffer length and the packet count.
C39_FailedConfigureKeepsConfig ==
    [][ (last'.op \in ConfigureOps /\ last'.exc # "ok") => UNCHANGED config
      ]_vars

\* C33: context.handleEvents() is never called from inside a completion
\* dispatch: every step in which the user's loop, close()'s drain loop or a
\* finalizer's drain loop makes the call starts with no user callback running.
C33_NoHandleEventsInsideDispatch ==
    [][ ( \/ last'.native = "handle_events"
          \/ (hpc # "events" /\ hpc' = "events")
          \/ \E t \in HTransfers : fin[t] # "events" /\ fin'[t] = "events" )
          => dispatching = {}
      ]_vars

\* C37: no method of a transfer makes a native call (fill, submit, cancel) on
\* a descriptor that was freed.
C37_NoNativeCallOnFreed ==
    ~ ( /\ last.op \in { "setBulk", "submit", "cancel" }
        /\ last.native \in { "fill", "submit", "cancel" }
        /\ fin[last.t] = "freed" )

\* C40: close() is left by an exception exactly when a cancel() raised
\* something other than USBErrorNotFound and USBErrorNoDevice or a
\* handleEvents() raised something other than USBErrorInterrupted; the step
\* that raises does not make the native release call; and from then on no
\* step makes it: a later close() returns without doing anything.
C40_FailedCloseNeverReleases ==
    [][ /\ (hpc # "failed" /\ hpc' = "failed")
             => /\ last'.exc \notin { "ok", "USBErrorInterrupted" }
                /\ last'.native \in { "cancel", "handle_events" }
                /\ last'.native = "cancel"
                     => last'.exc \notin { "USBErrorNotFound", "USBErrorNoDevice" }
        /\ (last'.op = "handleClose" /\ last'.native = "cancel"
              /\ \E t \in DOMAIN last'.cancel :
                    last'.cancel[t] \notin { SUCCESS, ERROR_NOT_FOUND,
                                             ERROR_NO_DEVICE })
             => hpc' = "failed"
        /\ (hpc = "events" /\ last'.op = "handleClose"
              /\ last'.result \notin { SUCCESS, ERROR_INTERRUPTED })
             => /\ hpc' = "failed"
                /\ last'.exc = raiseUSBError(last'.result)
        /\ hpc = "failed"
             => /\ hpc' = "failed"
                /\ last'.native # "libusb_close"
        /\ (hpc = "failed" /\ last'.op = "handleClose")
             => /\ last'.exc = "ok"
                /\ last'.native = "none"
                /\ UNCHANGED << hvars, transfer, submitted_dict, inflight,
                                native >>
      ]_vars

\* close() raised, and a later close() has just returned without a native
\* call.
C40_Witness ==
    /\ hpc = "failed"
    /\ last.op = "handleClose"
    /\ DOMAIN last = { "op", "exc", "native" }
    /\ last.exc = "ok"
    /\ last.native = "none"

\* C38: each native resource is released at most once.  A transfer's
\* descriptor is freed only by a step that finds its finalizer alive and
\* leaves it dead, and a dead finalizer stays dead; libusb_close is called
\* only by the step that takes the handle from its finalizer loop to released,
\* and a handle that was released or whose close() raised stays so;
\* libusb_exit is called only on a valid context, which it leaves null, and a
\* null context becomes valid only through a successful libusb_init_context.
\* A close() called again on a transfer, a handle or a context makes no
\* native call and releases nothing.
C38_ReleasedAtMostOnce ==
    [][ /\ \A t \in HTransfers :
             /\ (last'.native = "free" /\ last'.t = t)
                  => /\ fin[t] \in { "armed", "events" }
                     /\ fin'[t] = "freed"
             /\ fin[t] \in { "freed", "failed" } => fin'[t] = fin[t]
             /\ (fin[t] = "freed" /\ last'.op = "close" /\ "t" \in DOMAIN last'
                   /\ last'.t = t)
                  => /\ last'.native = "none"
                     /\ UNCHANGED << fin, native, submitted_dict, inflight >>
        /\ last'.native = "libusb_close"
             => hpc = "finalizing" /\ hpc' = "released"
        /\ hpc \in { "released", "closed" } => hpc' \in { "released", "closed" }
        /\ hpc = "failed" => hpc' = "failed"
        /\ (hpc \in { "released", "closed", "failed" } /\ last'.op = "handleClose")
             => /\ last'.native = "none"
                /\ UNCHANGED << hvars, native >>
        /\ last'.native = "libusb_exit"
             => /\ context_p = "valid"
                /\ context_p' = "null"
                /\ ctx_close' = "dead"
        /\ (context_p' = "valid" /\ context_p = "null")
             => /\ last'.native = "libusb_init"
                /\ last'.exc = "ok"
                /\ ctx_close' = "alive"
        /\ (ctx_close # "alive" /\ ctx_close' = "alive") => context_p = "null"
        /\ (ctx_close # "alive" /\ last'.op = "close" /\ "th" \in DOMAIN last')
             => /\ last'.native \in { "none", "libusb_exit" }
                /\ last'.native = "libusb_exit" => cpc[1] = "cascade"
                /\ (cpc[1] = "idle"
                      => /\ last'.native = "none"
                         /\ UNCHANGED << context_p, ctx_close, hvars, native >>)
      ]_vars

\* The handle was released and a transfer freed, libusb_exit was called, and
\* a later context.close() has just returned without a native call.
C38_Witness ==
    /\ last.op = "close"
    /\ "th" \in DOMAIN last
    /\ last.native = "none"
    /\ last.exc = "ok"
    /\ ctx_close = "dead"
    /\ context_p = "null"
    /\ hpc \in { "released", "closed" }
    /\ \E t \in HTransfers : fin[t] = "freed"

\* C32: the helper calls the callback registered for the status of the
\* transfer, and the default callback when none is; the default callback is
\* DEFAULT_ASYNC_TRANSFER_ERROR_CALLBACK, which returns False, until
\* setDefaultCallback replaces it.  transfer.submit() is called exactly when
\* the callback returns a true value, and the native submit call is made
\* exactly when moreover the transfer is not doomed: on a doomed transfer
\* DoomedTransferError is caught and nothing changes, and any other error of
\* submit() leaves the helper.  setEventCallback raises ValueError exactly for
\* an event that is not one of the seven statuses, and otherwise sets the
\* entry of that event alone.
C32_HelperSelectsAndResubmits ==
    /\ [](last.op = "init"
            => /\ helper.errorCallback = "DEFAULT_ASYNC_TRANSFER_ERROR_CALLBACK"
               /\ DOMAIN helper.event_callback_dict = {})
    /\ [][ /\ (helper.pc = "idle" /\ helper'.pc = "running")
                => helper'.selected
                     = IF last.status \in DOMAIN helper.event_callback_dict
                       THEN helper.event_callback_dict[last.status]
                       ELSE helper.errorCallback
           /\ (helper.pc = "running" /\ helper'.pc # "running")
                => \A t \in dispatching :
                     LET truth == helper'.returned \in { "True", "1" }
                     IN  /\ helper.selected = "DEFAULT_ASYNC_TRANSFER_ERROR_CALLBACK"
                              => helper'.returned = "False"
                         /\ (last'.op = "submit") <=> truth
                         /\ (last'.native = "submit") <=> (truth /\ ~doomed[t])
                         /\ (truth /\ doomed[t])
                              => /\ last'.exc = "DoomedTransferError"
                                 /\ helper'.pc = "returned"
                                 /\ UNCHANGED << submitted_dict, inflight, native >>
                         /\ (t \in submitted_dict')
                              <=> (truth /\ ~doomed[t] /\ last'.exc = "ok")
                         /\ (helper'.pc = "raised")
                              <=> (truth /\ ~doomed[t] /\ last'.exc # "ok")
           /\ last'.op = "setEventCallback"
                => /\ (last'.exc = "ValueError")
                        <=> last'.event \notin
                              { TRANSFER_COMPLETED, TRANSFER_ERROR,
                                TRANSFER_TIMED_OUT, TRANSFER_CANCELLED,
                                TRANSFER_STALL, TRANSFER_NO_DEVICE,
                                TRANSFER_OVERFLOW }
                   /\ last'.exc = "ValueError" => UNCHANGED helper
                   /\ last'.exc = "ok"
                        => /\ DOMAIN helper'.event_callback_dict
                                = DOMAIN helper.event_callback_dict
                                    \cup { last'.event }
                           /\ helper'.event_callback_dict[last'.event]
                                = last'.callback
                           /\ \A e \in DOMAIN helper.event_callback_dict
                                         \ { last'.event } :
                                helper'.event_callback_dict[e]
                                  = helper.event_callback_dict[e]
           /\ helper'.errorCallback # helper.errorCallback
                => last'.op = "setDefaultCallback"
         ]_vars

\* The callback registered for the status returned 1 on a transfer it had
\* doomed: submit() was called, raised DoomedTransferError and the helper
\* returned.
C32_Witness ==
    /\ helper.pc = "returned"
    /\ helper.returned = "1"
    /\ helper.selected = "cb2"
    /\ helper.errorCallback # "cb2"
    /\ last.op = "submit"
    /\ last.exc = "DoomedTransferError"
    /\ doomed[last.t]
    /\ last.t \in dispatching

\* C34: when one thread calls submit() while the event thread dispatches,
\* the native submit call is made on a transfer that is already a key of the
\* registry and a member of the in-flight set, and a completion is dispatched
\* only after that call: never while the submitting thread is still before
\* it, and always finding the registry entry, also when submit() has not
\* returned yet.
C34_RegisteredBeforeNativeSubmit ==
    [][ /\ (last'.op = "submit" /\ last'.native = "submit")
            => last'.t \in submitted_dict \cap inflight
        /\ last'.op = "callbackWrapper"
            => /\ last'.exc = "ok"
               /\ \A th \in Threads :
                    ~ /\ tpc[th] # << >>
                      /\ tpc[th][2] = last'.t
                      /\ tpc[th][1] \in { "checked", "added", "registered" }
      ]_vars

\* The completion of a submission was dispatched, and found its registry
\* entry, before the submit() call that made it has returned.
C34_Witness ==
    /\ last.op = "callbackWrapper"
    /\ last.exc = "ok"
    /\ tpc[1] = << "returning", last.t >>
    /\ last.t \in dispatching
    /\ last.t \notin submitted_dict

\* C35: when a thread calls cancel() while the event thread dispatches the
\* transfer's completion, the native cancel call that follows a step of that
\* dispatch is made on a transfer that is still a key of the registry and
\* still has its native descriptor.
C35_NativeCancelOnlyOnRegistered ==
    [][ ( /\ last.op \in { "callbackWrapper", "callbackReturn" }
          /\ last'.op = "cancel"
          /\ last'.native = "cancel"
          /\ last'.t = last.t )
          => /\ last'.t \in submitted_dict
             /\ transfer[last'.t] = "Ptr"
      ]_vars

\* C36: when two threads call submit() on the same configured transfer, the
\* transfer is a key of the registry and a member of the in-flight set
\* whenever the driver holds it: the call the driver refuses does not remove
\* what the accepted one registered.
C36_LosingSubmitKeepsRegistrations ==
    \A t \in Transfers :
        native[t] # "idle" => t \in submitted_dict /\ t \in inflight

====
